---------------------------- MODULE Spec2Model ----------------------------
(***************************************************************************)
(* Heritage Defender: the App shell (App.js) and the GameCanvas frame loop *)
(* (components/GameCanvas.jsx) as a state machine.                         *)
(*                                                                         *)
(* Units.  JavaScript numbers are doubles; the model is fixed point:       *)
(*   time       milliseconds (performance.now(), rAF timestamps, dt)       *)
(*   position   1/1000 pixel (mpx)                                         *)
(*   velocity   1/1000 pixel per second (mpx/s)                            *)
(*   angle      1/1000 radian (mrad)                                       *)
(*   Math.random()   an integer 0..999 standing for r/1000                 *)
(* A product v*dt of a velocity and a dt is divided by 1000 and floored.   *)
(***************************************************************************)
EXTENDS Integers, Sequences, FiniteSets, TLC

----------------------------------------------------------------------------
(* Math.*                                                                  *)

Abs(x) == IF x < 0 THEN -x ELSE x

Min(a, b) == IF a < b THEN a ELSE b

Max(a, b) == IF a > b THEN a ELSE b

\* x/d rounded toward zero, so that the fixed point is symmetric in sign.
Quot(x, d) == IF x >= 0 THEN x \div d ELSE -((-x) \div d)

\* Math.floor(x / d) for d > 0
Floor(x, d) == x \div d

RECURSIVE SqrtIter(_, _, _)
SqrtIter(n, lo, hi) ==
  IF lo >= hi THEN lo
  ELSE LET mid == (lo + hi + 1) \div 2
       IN IF mid * mid <= n THEN SqrtIter(n, mid, hi) ELSE SqrtIter(n, lo, mid - 1)

\* Math.sqrt on a non-negative integer below 2^31, floored
Sqrt(n) == SqrtIter(n, 0, 46340)

PiM == 3142
TwoPiM == 6283
HalfPiM == 1571

\* sine of a in [0, PiM] mrad, times 1000 (Bhaskara's rational approximation)
SinHalf(a) ==
  LET p == a * (PiM - a)
  IN (16 * p) \div ((49361820 - 4 * p) \div 1000)

\* Math.sin: a in mrad, result times 1000
Sin(a) ==
  LET r == a % TwoPiM
  IN IF r <= PiM THEN Min(1000, SinHalf(r)) ELSE -Min(1000, SinHalf(Min(PiM, r - PiM)))

\* Math.cos: a in mrad, result times 1000
Cos(a) == Sin(a + HalfPiM)

\* arctangent of z/1000 for z in 0..1000, in mrad
AtanUnit(z) == (785 * z) \div 1000 + (273 * z * (1000 - z)) \div 1000000

\* arctangent of y/x for x > 0, y >= 0 (first quadrant), in mrad
AtanQ1(y, x) ==
  IF y <= x THEN AtanUnit(((y * 1000) \div x))
  ELSE HalfPiM - AtanUnit(((x * 1000) \div y))

\* Math.atan2(y, x) in mrad, in (-PiM, PiM]; arguments below 2^31 / 1000
Atan2(y, x) ==
  IF x = 0 /\ y = 0 THEN 0
  ELSE IF x = 0 THEN (IF y > 0 THEN HalfPiM ELSE -HalfPiM)
  ELSE IF x > 0 THEN (IF y >= 0 THEN AtanQ1(y, x) ELSE -AtanQ1(-y, x))
  ELSE (IF y >= 0 THEN PiM - AtanQ1(y, -x) ELSE -(PiM - AtanQ1(-y, -x)))

----------------------------------------------------------------------------
(* Program constants                                                       *)

MAX_LEVEL == 100
InitialLives == 3
InitialWidth == 1280
InitialHeight == 720
MinHeight == 360
ShipStartX == 120
ShipStartY == 360
ShipW == 38
ShipH == 22
ShipSpeed == 280
Ceiling == 40
GroundMargin == 10
ShotCooldown == 180
BombCooldown == 1200
BombFuse == 1200
BombRadius == 90
BulletVx == 520
BulletR == 3
BombR == 8
RocketW == 8
RocketH == 18
LevelDuration == 20000
MaxDt == 33
TerrainStep == 6
TerrainPeriod == 300
MaxShake == 15
DamageFlashMs == 500

----------------------------------------------------------------------------
(* Bounds of the model                                                     *)

\* the clock stops advancing at MaxNow ms
MaxNow == 120
\* at most this many loop callbacks are pending at once
MaxChains == 3
\* at most this many bullets, bombs and rockets are listed at once
MaxBullets == 2
MaxBombs == 2
MaxRockets == 8
\* at most this many particles are listed at once
MaxParticles == 200

VARIABLES
  app,        \* App.js: the useState cells of the App component
  st,         \* GameCanvas.jsx: stateRef.current
  now,        \* performance.now(), ms since the time origin
  rendered,   \* what the last render of GameCanvas closed over (its props)
  rafQueue,   \* loop callbacks requested for the next animation frame
  frameQueue, \* loop callbacks of the current frame not yet run
  frameTime,  \* timestamp the current frame passes to its callbacks
  shots,      \* history: the clock values at which shoot() added a bullet
  out         \* what the last step did: signals emitted and a trace of the tick

vars == <<app, st, now, rendered, rafQueue, frameQueue, frameTime, shots, out>>

KeyNames == {"ArrowUp", "ArrowDown", "ArrowLeft", "ArrowRight"}

----------------------------------------------------------------------------
(* Terrain: buildTerrain and groundYAt                                     *)

\* y of the sample at index i (x = 6 i px) that buildTerrain computes for a
\* level and a viewport height, in mpx
TerrainY(lvl, height, i) ==
  LET x == TerrainStep * i
      base == height * 820
      amplitude == 28 + (lvl % 5) * 7
      freqE5 == 350 + (lvl % 7) * 25
      a1 == ((x + lvl * 217) * freqE5) \div 100
      a2 == ((x + lvl * 389) * freqE5 * 7) \div 1000
  IN base + Sin(a1) * amplitude + Quot(Cos(a2) * amplitude * 35, 100)

\* number of samples of the loop  for (x = 0; x < width + 3000; x += 6)
TerrainLen(width) == (width + 3000 + TerrainStep - 1) \div TerrainStep

\* st.terrain after buildTerrain ran in a render whose level prop is lvl.
\* The array is a function of (lvl, st.width, st.height): the state keeps
\* these arguments and its length n, sample i is TerrainY(level, height, i).
buildTerrain(s, lvl) ==
  [s EXCEPT !.terrain = [n |-> TerrainLen(s.width), level |-> lvl, height |-> s.height],
            !.terrainOffset = 0]

\* buildAllScenery: of the seven layers only the terrain is read by the simulation
buildAllScenery(s, lvl) == buildTerrain(s, lvl)

\* a lookup that extends the terrain to the left of its first sample
groundYAtExtended(s, x) ==
  LET idx == Floor(x + s.terrainOffset, TerrainStep * 1000)
  IN IF idx < s.terrain.n
       THEN TerrainY(s.terrain.level, s.terrain.height, idx)
       ELSE s.height * 850

\* st.terrain[idx]?.y ?? st.height * 0.85   (x in mpx)
groundYAt(s, x) ==
  LET idx == Floor(x + s.terrainOffset, TerrainStep * 1000)
  IN IF idx >= 0 /\ idx < s.terrain.n
       THEN TerrainY(s.terrain.level, s.terrain.height, idx)
       ELSE s.height * 850

----------------------------------------------------------------------------
(* stateRef.current                                                        *)

\* the object passed to useRef: the state before any effect has run
InitialState ==
  [ width |-> InitialWidth, height |-> InitialHeight,
    keys |-> [k \in KeyNames |-> FALSE],
    lastTime |-> 0,
    camera |-> [x |-> 0, y |-> 0, shakeX |-> 0, shakeY |-> 0,
                shakeIntensity |-> 0, shakeDuration |-> 0],
    terrain |-> [n |-> 0, level |-> 0, height |-> 0],
    terrainOffset |-> 0,
    ship |-> [x |-> ShipStartX * 1000, y |-> ShipStartY * 1000,
              w |-> ShipW * 1000, h |-> ShipH * 1000,
              vx |-> 0, vy |-> 0, speed |-> ShipSpeed * 1000, damageFlash |-> 0,
              lastVx |-> 0, lastVy |-> 0],
    bullets |-> <<>>, bombs |-> <<>>, rockets |-> <<>>, particles |-> <<>>,
    flashes |-> <<>>, shockwaves |-> <<>>,
    levelTimer |-> 0, levelDuration |-> LevelDuration,
    \* lastShot, lastBomb, rocketAcc, ship.lastVx/lastVy are undefined at first;
    \* every read of them is  x && ...  or  x || 0 , which treats undefined as 0
    lastShot |-> 0, lastBomb |-> 0, rocketAcc |-> 0 ]

\* the n-th Math.random() of a call site in a tick whose draw is seed (0..999)
Rnd(seed, n) == (seed + 379 * n) % 1000

\* distance of two points given in mpx, in 1/10 px
DistD(x1, y1, x2, y2) ==
  LET dx == Quot(x1 - x2, 100)
      dy == Quot(y1 - y2, 100)
  IN Sqrt(dx * dx + dy * dy)

----------------------------------------------------------------------------
(* shoot and bomb                                                          *)

\* shoot() at clock t: the state after it and whether onShoot was emitted
shoot(s, t) ==
  IF s.lastShot # 0 /\ t - s.lastShot < ShotCooldown
    THEN [s |-> s, fired |-> FALSE]
    ELSE [s |-> [s EXCEPT !.lastShot = t,
                          !.bullets = Append(@, [x |-> s.ship.x + s.ship.w,
                                                 y |-> s.ship.y + (s.ship.h * 4) \div 10,
                                                 vx |-> BulletVx * 1000, vy |-> 0,
                                                 r |-> BulletR * 1000])],
          fired |-> TRUE]

\* bomb() at clock t: the state after it and whether onBomb was emitted
bomb(s, t) ==
  IF s.lastBomb # 0 /\ t - s.lastBomb < BombCooldown
    THEN [s |-> s, fired |-> FALSE]
    ELSE [s |-> [s EXCEPT !.lastBomb = t,
                          !.bombs = Append(@, [x |-> s.ship.x + s.ship.w \div 2,
                                               y |-> s.ship.y + s.ship.h,
                                               vx |-> 60000, vy |-> 120000,
                                               r |-> BombR * 1000,
                                               fuse |-> BombFuse, spawn |-> t])],
          fired |-> TRUE]

----------------------------------------------------------------------------
(* Camera shake and explosions                                             *)

\* a trigger that always replaces the current shake
triggerScreenShakeAlways(s, intensity, duration) ==
  [s EXCEPT !.camera.shakeIntensity = Min(intensity, MaxShake * 1000),
            !.camera.shakeDuration = duration]

\* triggerScreenShake(intensity, duration): intensity in mpx, duration in ms
triggerScreenShake(s, intensity, duration) ==
  IF intensity > s.camera.shakeIntensity \/ s.camera.shakeDuration < 50
    THEN [s EXCEPT !.camera.shakeIntensity = Min(intensity, MaxShake * 1000),
                   !.camera.shakeDuration = duration]
    ELSE s

\* updateScreenShake(dt); rx, ry are its two Math.random() draws
updateScreenShake(s, dt, rx, ry) ==
  IF s.camera.shakeDuration > 0
    THEN LET dur == s.camera.shakeDuration - dt
             factor == Max(0, (dur * 1000) \div 300)
             currentIntensity == (s.camera.shakeIntensity * factor) \div 1000
         IN IF dur <= 0
              THEN [s EXCEPT !.camera.shakeDuration = dur, !.camera.shakeX = 0,
                             !.camera.shakeY = 0, !.camera.shakeIntensity = 0]
              ELSE [s EXCEPT !.camera.shakeDuration = dur,
                             !.camera.shakeX = Quot((rx - 500) * currentIntensity * 2, 1000),
                             !.camera.shakeY = Quot((ry - 500) * currentIntensity * 2, 1000)]
    ELSE s

\* the i-th particle of an explosion of count particles at (x, y)
ExplosionParticle(x, y, i, count, intensity, seed) ==
  LET ang == (TwoPiM * i) \div count + (Rnd(seed, 3 * i) * 800) \div 1000
      baseSpeed == IF intensity = "heavy" THEN 150 ELSE IF intensity = "medium" THEN 120 ELSE 80
      sp == baseSpeed * 1000 + (Rnd(seed, 3 * i + 1) * baseSpeed * 8) \div 10
      particleType == Rnd(seed, 3 * i + 2)
      life == Rnd(seed, 3 * i + 3)
  IN IF particleType < 400
       THEN [x |-> x, y |-> y, vx |-> Quot(Quot(Cos(ang) * sp, 1000) * 7, 10),
             vy |-> Quot(Quot(Sin(ang) * sp, 1000) * 7, 10) - 30000,
             life |-> 800 + (life * 600) \div 1000, age |-> 0, type |-> "flame"]
     ELSE IF particleType < 700
       THEN [x |-> x, y |-> y, vx |-> Quot(Cos(ang) * sp, 1000),
             vy |-> Quot(Sin(ang) * sp, 1000),
             life |-> 400 + (life * 300) \div 1000, age |-> 0, type |-> "spark"]
     ELSE [x |-> x, y |-> y, vx |-> Quot(Quot(Cos(ang) * sp, 1000), 2),
           vy |-> Quot(Quot(Sin(ang) * sp, 1000), 2),
           life |-> 1200 + (life * 800) \div 1000, age |-> 0, type |-> "debris"]

\* explode(x, y, count, intensity); seed is the tick's draw for its Math.random()
explode(s, x, y, count, intensity, seed) ==
  LET distToShip == DistD(x, y, s.ship.x, s.ship.y)
      shakeStrength == IF intensity = "heavy" THEN 12 ELSE IF intensity = "medium" THEN 8 ELSE 5
      proximityFactor == Max(0, 1000 - distToShip \div 3)
      s1 == IF proximityFactor > 100
              THEN triggerScreenShake(s, shakeStrength * proximityFactor,
                                      300 + (IF intensity = "heavy" THEN 200 ELSE 0))
              ELSE s
      flash == IF intensity = "heavy" THEN <<[life |-> 150, age |-> 0]>>
               ELSE IF intensity = "medium" THEN <<[life |-> 100, age |-> 0]>>
               ELSE <<>>
      wave == IF intensity = "heavy"
                THEN <<[x |-> x, y |-> y, radius |-> 0, maxRadius |-> 120000,
                        life |-> 600, age |-> 0]>>
                ELSE <<>>
  IN [s1 EXCEPT !.flashes = @ \o flash,
                !.shockwaves = @ \o wave,
                !.particles = @ \o [i \in 1..count |->
                                      ExplosionParticle(x, y, i - 1, count, intensity, seed)]]

----------------------------------------------------------------------------
(* Rockets: spawnRockets and the per-rocket update of loop                 *)

\* the rocket pushed by one pass of the while loop of spawnRockets
NewRocket(s, lvl, seed) ==
  LET aheadX == s.ship.x + s.width * 600 + (Rnd(seed, 0) * s.width * 4) \div 10
      idx == Min(s.terrain.n - 1, Max(0, Floor(aheadX, TerrainStep * 1000)))
      groundY == IF idx >= 0 /\ idx < s.terrain.n
                   THEN TerrainY(s.terrain.level, s.terrain.height, idx)
                   ELSE s.height * 850
      baseX == aheadX + (Rnd(seed, 1) - 500) * 40
  IN [x |-> baseX, y |-> groundY - 8000,
      vx |-> -((120 + lvl * 4) * 1000),
      vy |-> -(180000 + Rnd(seed, 2) * (60 + lvl * 3)),
      w |-> RocketW * 1000, h |-> RocketH * 1000,
      active |-> FALSE, launched |-> FALSE, targetingEnabled |-> FALSE,
      steeringForce |-> (180 + lvl * 15) * 1000,
      predictionTime |-> 800 + lvl * 100,
      maxTurnRate |-> 2500 + lvl * 300,
      interceptMode |-> FALSE,
      lastTargetX |-> s.ship.x, lastTargetY |-> s.ship.y]

\* while (st.rocketAcc > 1) { st.rocketAcc -= 1; st.rockets.push(...) }
RECURSIVE SpawnLoop(_, _, _)
SpawnLoop(s, lvl, seed) ==
  IF s.rocketAcc > 1000000
    THEN SpawnLoop([s EXCEPT !.rocketAcc = @ - 1000000,
                             !.rockets = Append(@, NewRocket(s, lvl, seed))],
                   lvl, Rnd(seed, 5))
    ELSE s

\* a spawner that never emits
spawnRocketsNever(s, dt, lvl, seed) == [s EXCEPT !.rocketAcc = @ + dt * (500 + lvl * 30)]

\* spawnRockets(dt) in a render whose level prop is lvl; rocketAcc in 1/1000000
spawnRockets(s, dt, lvl, seed) ==
  SpawnLoop([s EXCEPT !.rocketAcc = @ + dt * (500 + lvl * 30)], lvl, seed)

\* while (a > PI) a -= 2 PI; while (a < -PI) a += 2 PI
RECURSIVE WrapPi(_)
WrapPi(a) ==
  IF a > PiM THEN WrapPi(a - TwoPiM)
  ELSE IF a < -PiM THEN WrapPi(a + TwoPiM)
  ELSE a

\* the angle of a velocity vector (mpx/s), Math.atan2(vy, vx)
Heading(vx, vy) == Atan2(Quot(vy, 100), Quot(vx, 100))

\* Math.max(-maxTurnThisFrame, Math.min(maxTurnThisFrame, angleDiff))
ClampTurn(angleDiff, maxTurnThisFrame) ==
  Max(-maxTurnThisFrame, Min(maxTurnThisFrame, angleDiff))

\* the intercept point of the targeting branch: the predicted ship position,
\* the vector from the rocket's centre to it (1/10 px) and its length, and
\* whether the ship changed its velocity by more than 100 px/s
Intercept(s, r) ==
  LET predictionTime == Min(r.predictionTime, 2000)
      predictedShipX == s.ship.x + s.ship.w \div 2 + Quot(s.ship.vx * predictionTime, 1000)
      predictedShipY == s.ship.y + s.ship.h \div 2 + Quot(s.ship.vy * predictionTime, 1000)
      deltaX == Quot(predictedShipX - (r.x + r.w \div 2), 100)
      deltaY == Quot(predictedShipY - (r.y + r.h \div 2), 100)
      shipSpeedChange == Abs(s.ship.vx - s.ship.lastVx) + Abs(s.ship.vy - s.ship.lastVy)
  IN [predictedShipX |-> predictedShipX, predictedShipY |-> predictedShipY,
      deltaX |-> deltaX, deltaY |-> deltaY,
      distanceToTarget |-> Sqrt(deltaX * deltaX + deltaY * deltaY),
      adapt |-> shipSpeedChange > 100000]

\* currentAngle, maxTurnThisFrame and actualTurnAmount of the targeting branch
Turn(r, dt, desiredAngle, currentAngle) ==
  [from |-> currentAngle,
   maxTurn |-> (r.maxTurnRate * dt) \div 1000,
   turn |-> ClampTurn(WrapPi(desiredAngle - currentAngle), (r.maxTurnRate * dt) \div 1000),
   to |-> 0, dt |-> dt]

\* a * b / d truncated as Quot(a * b, d) for b >= 0 and d > 0, with
\* intermediate products that stay within 32 bits
MulQuot(a, b, d) == a * (b \div d) + Quot(a * (b % d), d)

\* the velocity after the steering toward newAngle and the intercept force
\* toward the target tg at speed currentSpeed (1/10 px/s)
SteerVelocity(r, dt, tg, newAngle, currentSpeed) ==
  LET steeringIntensity == Min(1000, tg.distanceToTarget \div 2)
      steeringMultiplier == (steeringIntensity * ((r.steeringForce \div 200) * dt)) \div 1000
      targetVelX == Quot(Cos(newAngle) * currentSpeed, 10)
      targetVelY == Quot(Sin(newAngle) * currentSpeed, 10)
      force == (r.steeringForce \div 10000) * 3 * dt
               + ((r.steeringForce % 10000) * 3 * dt) \div 10000
      interceptX == IF tg.distanceToTarget > 500
                      THEN MulQuot(tg.deltaX, force, tg.distanceToTarget) ELSE 0
      interceptY == IF tg.distanceToTarget > 500
                      THEN MulQuot(tg.deltaY, force, tg.distanceToTarget) ELSE 0
  IN [r EXCEPT !.vx = @ + MulQuot(Quot(targetVelX - r.vx, 100), Quot(steeringMultiplier, 10), 1000)
                        + interceptX,
               !.vy = @ + MulQuot(Quot(targetVelY - r.vy, 100), Quot(steeringMultiplier, 10), 1000)
                        + interceptY,
               !.lastTargetX = tg.predictedShipX, !.lastTargetY = tg.predictedShipY,
               !.steeringForce = IF tg.adapt THEN @ + @ \div 10 ELSE @,
               !.maxTurnRate = IF tg.adapt THEN (@ * 105) \div 100 ELSE @]

\* the targeting branch for the target tg and the turn tn
SteerBy(r, dt, tg, tn) ==
  [r |-> SteerVelocity(r, dt, tg, tn.from + tn.turn,
                       Sqrt(Quot(r.vx, 100) * Quot(r.vx, 100) + Quot(r.vy, 100) * Quot(r.vy, 100))),
   steer |-> <<tn>>]

\* the targeting branch toward the target tg
SteerToward(r, dt, tg) ==
  SteerBy(r, dt, tg, Turn(r, dt, Atan2(tg.deltaY, tg.deltaX), Heading(r.vx, r.vy)))

\* the targeting branch of the rocket update: r after steering, and the turn
Steer(s, r, dt) == SteerToward(r, dt, Intercept(s, r))

\* an activation that waits for nothing
ActivateAtOnce(s, r) ==
  [r EXCEPT !.active = TRUE, !.targetingEnabled = TRUE, !.interceptMode = TRUE]

\* the activation of a rocket 30 px above the ground
Activate(s, r) ==
  IF ~r.active /\ r.y < groundYAt(s, r.x) - 30000
    THEN [r EXCEPT !.active = TRUE, !.targetingEnabled = TRUE, !.interceptMode = TRUE]
    ELSE r

\* if (r.active && r.targetingEnabled) { if (r.interceptMode) { ... } }
Targeting(s, r, dt) ==
  IF r.active /\ r.targetingEnabled /\ r.interceptMode
    THEN Steer(s, r, dt)
    ELSE [r |-> r, steer |-> <<>>]

\* position and gravity update of a rocket; scroll is terrainScrollSpeed in px/s
MoveRocket(r, dt, lvl, scroll) ==
  LET g == 320 + lvl * 6
      gravityReduction == IF r.active /\ r.interceptMode THEN 15 ELSE 35
      vy == r.vy + (g * dt * gravityReduction) \div 100
  IN [r EXCEPT !.x = @ + Quot((r.vx - scroll * 1000) * dt, 1000),
               !.y = @ + Quot(r.vy * dt, 1000),
               !.vy = vy,
               !.launched = @ \/ vy < 0]

\* the rocket after its update, whether it emits an exhaust particle (rand is
\* the Math.random() of that test) and the steering done, with the heading reached
Updated(r, steer, rand) ==
  [r |-> r,
   exhaust |-> r.launched /\ r.active
               /\ rand < (IF r.active /\ r.interceptMode THEN 500 ELSE 300),
   steer |-> [i \in 1..Len(steer) |-> [steer[i] EXCEPT !.to = Heading(r.vx, r.vy)]]]

\* the rocket update after the targeting branch returned tr
AfterTargeting(tr, dt, lvl, scroll, rand) ==
  Updated(MoveRocket(tr.r, dt, lvl, scroll), tr.steer, rand)

\* the body of  st.rockets.forEach(r => ...)  for one rocket
UpdateRocket(s, r0, dt, lvl, scroll, rand) ==
  AfterTargeting(Targeting(s, Activate(s, r0), dt), dt, lvl, scroll, rand)

\* the exhaust particle a rocket emits
ExhaustParticle(r, rand) ==
  LET exhaustIntensity == IF r.active /\ r.interceptMode THEN 15 ELSE 10
  IN [x |-> r.x + r.w \div 2 + (rand - 500) * 2,
      y |-> r.y + r.h + rand * 3,
      vx |-> (rand - 500) * 3 * exhaustIntensity,
      vy |-> 80000 + rand * 4 * exhaustIntensity,
      life |-> 300 + (rand * 200) \div 1000, age |-> 0, type |-> "rocket_exhaust"]

----------------------------------------------------------------------------
(* Collision passes of loop                                                *)

\* aabb(a, b)
aabb(a, b) ==
  /\ a.x < b.x + b.w
  /\ a.x + a.w > b.x
  /\ a.y < b.y + b.h
  /\ a.y + a.h > b.y

\* dx^2 + dy^2 as a pair <<q, rem>> standing for q * 10^6 + rem, for
\* |dx|, |dy| < 2^15 * 1000 mpx (the square itself does not fit 32 bits)
SqSum(dx, dy) ==
  LET ax == Abs(dx) \div 1000
      bx == Abs(dx) % 1000
      ay == Abs(dy) \div 1000
      by == Abs(dy) % 1000
      lo == 2 * ax * bx * 1000 + bx * bx + 2 * ay * by * 1000 + by * by
  IN <<ax * ax + ay * ay + lo \div 1000000, lo % 1000000>>

\* the blast test with the boundary included: d2 <= radius * radius
InBlastInclusive(dx, dy, radius) ==
  /\ Abs(dx) <= radius * 1000
  /\ Abs(dy) <= radius * 1000
  /\ \/ SqSum(dx, dy)[1] < radius * radius
     \/ SqSum(dx, dy) = <<radius * radius, 0>>

\* d2 < radius * radius  for a radius in px and dx, dy in mpx
InBlast(dx, dy, radius) ==
  /\ Abs(dx) < radius * 1000
  /\ Abs(dy) < radius * 1000
  /\ SqSum(dx, dy)[1] < radius * radius

\* the rockets.filter of one detonation of bomb b: folds the rockets left to
\* right; acc holds the state (explosions applied) and the rockets kept and killed
RECURSIVE BlastRockets(_, _, _, _)
BlastRockets(acc, rs, b, seed) ==
  IF rs = <<>> THEN acc
  ELSE LET r == Head(rs)
           cx == r.x + r.w \div 2
           cy == r.y + r.h \div 2
       IN IF InBlast(cx - b.x, cy - b.y, BombRadius)
            THEN BlastRockets([acc EXCEPT !.s = explode(@, cx, cy, 12, "medium", seed),
                                          !.killed = Append(@, r)],
                              Tail(rs), b, seed)
            ELSE BlastRockets([acc EXCEPT !.kept = Append(@, r)], Tail(rs), b, seed)

\* a bomb without a fuse
ExplodedAtGround(s, b, nowMs) == b.y > groundYAt(s, b.x) - 4000

\* (nowMs - b.spawn) > b.fuse || b.y > groundYAt(b.x) - 4
Exploded(s, b, nowMs) == (nowMs - b.spawn) > b.fuse \/ b.y > groundYAt(s, b.x) - 4000

\* the end of one detonation that awards a flat 20 whatever it destroyed
BlastedFlatScore(m, b, before, f) ==
  [m EXCEPT !.s = [f.s EXCEPT !.rockets = f.kept],
            !.onScore = IF Len(f.killed) > 0 THEN Append(@, 20) ELSE @,
            !.blasts = Append(@, [x |-> b.x, y |-> b.y, before |-> before,
                                  killed |-> f.killed])]

\* the end of one detonation: f is the result of the rockets.filter over the
\* rockets before; the score is awarded and the detonation recorded in m
Blasted(m, b, before, f) ==
  [m EXCEPT !.s = [f.s EXCEPT !.rockets = f.kept],
            !.onScore = IF Len(f.killed) > 0 THEN Append(@, Len(f.killed) * 20) ELSE @,
            !.blasts = Append(@, [x |-> b.x, y |-> b.y, before |-> before,
                                  killed |-> f.killed])]

\* the detonation of bomb b in the state s1 that follows its explode()
Detonate(m, b, s1, seed) ==
  Blasted(m, b, s1.rockets,
          BlastRockets([s |-> s1, kept |-> <<>>, killed |-> <<>>], s1.rockets, b, seed))

\* st.bombs = st.bombs.filter(b => ...): folds the bombs left to right.  m holds
\* the state s, the bombs kept, the onScore deltas emitted and one record per
\* detonation (its centre, the rockets before it, those it killed)
RECURSIVE BombPass(_, _, _, _)
BombPass(m, bs, nowMs, seed) ==
  IF bs = <<>> THEN m
  ELSE IF Exploded(m.s, Head(bs), nowMs)
    THEN BombPass(Detonate(m, Head(bs),
                           explode(m.s, Head(bs).x, Head(bs).y, 24, "heavy", seed), seed),
                  Tail(bs), nowMs, seed)
    ELSE BombPass([m EXCEPT !.kept = IF Head(bs).y < m.s.height * 1000 + 40000
                                        /\ Head(bs).x > -40000
                                       THEN Append(@, Head(bs)) ELSE @],
                  Tail(bs), nowMs, seed)

\* st.bullets.findIndex(b => aabb(box of b, r)); 0 stands for -1
RECURSIVE HitIdx(_, _, _)
HitIdx(bullets, r, i) ==
  IF i > Len(bullets) THEN 0
  ELSE LET b == bullets[i]
           a == [x |-> b.x - b.r, y |-> b.y - b.r, w |-> b.r * 2, h |-> b.r * 2]
       IN IF aabb(a, r) THEN i ELSE HitIdx(bullets, r, i + 1)

\* a splice that removes nothing
SpliceNothing(seq, i) == seq

\* bullets.splice(i, 1)
Splice(seq, i) == SubSeq(seq, 1, i - 1) \o SubSeq(seq, i + 1, Len(seq))

\* the rockets.filter of the bullet-rocket pass: folds the rockets left to right;
\* m.s.bullets shrinks as bullets hit
RECURSIVE BulletPass(_, _, _)
BulletPass(m, rs, seed) ==
  IF rs = <<>> THEN m
  ELSE LET r == Head(rs)
           hitIdx == HitIdx(m.s.bullets, r, 1)
       IN IF hitIdx >= 1
            THEN LET s1 == explode(m.s, r.x + r.w \div 2, r.y + r.h \div 2, 12, "medium", seed)
                 IN BulletPass([m EXCEPT !.s = [s1 EXCEPT !.bullets = Splice(@, hitIdx)],
                                         !.killed = Append(@, r),
                                         !.used = Append(@, m.s.bullets[hitIdx])],
                               Tail(rs), seed)
            ELSE BulletPass([m EXCEPT !.kept = Append(@, r)], Tail(rs), seed)

\* a hit test of the rocket-ship pass that leaves the active flag out
ShipHitAnyRocket(shipBox, r) == aabb(shipBox, r)

\* r.active && aabb(shipBox, r)
ShipHit(shipBox, r) == r.active /\ aabb(shipBox, r)

\* the rockets.filter of the rocket-ship pass
RECURSIVE ShipPass(_, _, _)
ShipPass(m, rs, seed) ==
  IF rs = <<>> THEN m
  ELSE LET r == Head(rs)
           ship == m.s.ship
           shipBox == [x |-> ship.x, y |-> ship.y, w |-> ship.w, h |-> ship.h]
       IN IF ShipHit(shipBox, r)
            THEN LET s1 == explode(m.s, ship.x + ship.w \div 2, ship.y + ship.h \div 2,
                                   20, "heavy", seed)
                 IN ShipPass([m EXCEPT !.s = [s1 EXCEPT !.ship.damageFlash = DamageFlashMs],
                                       !.killed = Append(@, r)],
                             Tail(rs), seed)
            ELSE ShipPass([m EXCEPT !.kept = Append(@, r)], Tail(rs), seed)

----------------------------------------------------------------------------
(* loop(now): one tick                                                     *)

\* the elapsed time taken as it is, without the upper bound
DeltaTimeUnclamped(s, t) == IF s.lastTime # 0 THEN t - s.lastTime ELSE 0

\* const dt = st.lastTime ? Math.min(0.033, (now - st.lastTime) / 1000) : 0
DeltaTime(s, t) == IF s.lastTime # 0 THEN Min(MaxDt, t - s.lastTime) ELSE 0

\* baseScrollSpeed + level * 3, px/s
TotalScrollSpeed(lvl) == 100 + lvl * 3

\* st.terrainOffset += terrainScrollSpeed * dt, then wrap(offset, 300)
ScrollTerrain(s, dt, lvl) ==
  [s EXCEPT !.terrainOffset = (@ + TotalScrollSpeed(lvl) * dt) % (TerrainPeriod * 1000)]

\* the clamp with the ground bound left out
ClampShipYCeilingOnly(s, y) == Max(Ceiling * 1000, y)

\* Math.max(40, Math.min(groundYAtShip - st.ship.h - 10, st.ship.y))
ClampShipY(s, y) ==
  Max(Ceiling * 1000, Min(groundYAt(s, s.ship.x) - s.ship.h - GroundMargin * 1000, y))

\* "Ship control" with a damage flash countdown that does not stop at 0
ShipControlFlashUnclamped(s, dt, lvl) ==
  LET k == s.keys
      speed == s.ship.speed
      vx == (IF k["ArrowRight"] THEN speed ELSE 0) - (IF k["ArrowLeft"] THEN (speed * 8) \div 10 ELSE 0)
      vy == (IF k["ArrowDown"] THEN speed ELSE 0) - (IF k["ArrowUp"] THEN speed ELSE 0)
      shipAutoScrollSpeed == TotalScrollSpeed(lvl) * 400
      x1 == s.ship.x + Quot((shipAutoScrollSpeed + vx) * dt, 1000)
      y1 == s.ship.y + Quot(vy * dt, 1000)
      x2 == Max(20000, Min(s.width * 700, x1))
      s1 == [s EXCEPT !.ship.vx = vx, !.ship.vy = vy, !.ship.x = x2]
      flash == IF s.ship.damageFlash > 0 THEN s.ship.damageFlash - dt
               ELSE s.ship.damageFlash
  IN [s1 EXCEPT !.ship.y = ClampShipY(s1, y1), !.ship.damageFlash = flash]

\* "Ship control" and the damage flash countdown
ShipControl(s, dt, lvl) ==
  LET k == s.keys
      speed == s.ship.speed
      vx == (IF k["ArrowRight"] THEN speed ELSE 0) - (IF k["ArrowLeft"] THEN (speed * 8) \div 10 ELSE 0)
      vy == (IF k["ArrowDown"] THEN speed ELSE 0) - (IF k["ArrowUp"] THEN speed ELSE 0)
      shipAutoScrollSpeed == TotalScrollSpeed(lvl) * 400
      x1 == s.ship.x + Quot((shipAutoScrollSpeed + vx) * dt, 1000)
      y1 == s.ship.y + Quot(vy * dt, 1000)
      x2 == Max(20000, Min(s.width * 700, x1))
      s1 == [s EXCEPT !.ship.vx = vx, !.ship.vy = vy, !.ship.x = x2]
      flash == IF s.ship.damageFlash > 0 THEN Max(0, s.ship.damageFlash - dt)
               ELSE s.ship.damageFlash
  IN [s1 EXCEPT !.ship.y = ClampShipY(s1, y1), !.ship.damageFlash = flash]

\* st.rockets = st.rockets.filter(r => r.x > -60 && r.y < st.height + 60)
RocketInBounds(s, r) == r.x > -60000 /\ r.y < s.height * 1000 + 60000

\* the bullet filter with the right edge left out
BulletInBoundsLeftOnly(s, b) == b.x > -40000

\* st.bullets.filter(b => b.x < st.width + 40 && b.x > -40)
BulletInBounds(s, b) == b.x < s.width * 1000 + 40000 /\ b.x > -40000

\* the exhaust particles pushed by the rockets i.. of the forEach results u
RECURSIVE Exhaust(_, _, _)
Exhaust(u, i, seed) ==
  IF i > Len(u) THEN <<>>
  ELSE (IF u[i].exhaust THEN <<ExhaustParticle(u[i].r, Rnd(seed, i + 1))>> ELSE <<>>)
       \o Exhaust(u, i + 1, seed)

\* the steering done by the rockets i.. of the forEach results u
RECURSIVE Steering(_, _)
Steering(u, i) == IF i > Len(u) THEN <<>> ELSE u[i].steer \o Steering(u, i + 1)

\* the state after the forEach returned u: ship.lastVx/lastVy and the rocket filter
KeepRockets(s, u, seed) ==
  [s EXCEPT !.rockets = SelectSeq([i \in 1..Len(u) |-> u[i].r],
                                  LAMBDA r : RocketInBounds(s, r)),
            !.particles = @ \o Exhaust(u, 1, seed),
            !.ship.lastVx = s.ship.vx, !.ship.lastVy = s.ship.vy]

\* the tick m after the forEach returned u and the rocket filter ran
RocketsDone(m, u, seed) ==
  [m EXCEPT !.s = KeepRockets(m.s, u, seed),
            !.steer = Steering(u, 1),
            !.rocketPass.seen = m.s.rockets,
            !.rocketPass.updated = [i \in 1..Len(u) |-> u[i].r],
            !.pruned.rockets = Len(u) - Len(KeepRockets(m.s, u, seed).rockets)]

\* the rocket forEach, ship.lastVx/lastVy and the rocket filter on the tick m
UpdateRockets(m, lvl, seed) ==
  RocketsDone(m, [i \in 1..Len(m.s.rockets) |->
                    UpdateRocket(m.s, m.s.rockets[i], m.dt, lvl,
                                 TotalScrollSpeed(lvl), Rnd(seed, i))],
              seed)

\* bullets and bombs advanced by a full step of MaxDt whatever dt is
MoveProjectilesFullStep(s, dt, lvl) ==
  LET scroll == TotalScrollSpeed(lvl) * 1000
      bullets == [i \in 1..Len(s.bullets) |->
                    [s.bullets[i] EXCEPT !.x = @ + Quot((s.bullets[i].vx - scroll) * MaxDt, 1000),
                                         !.y = @ + Quot(s.bullets[i].vy * MaxDt, 1000)]]
      bombs == [i \in 1..Len(s.bombs) |->
                  [s.bombs[i] EXCEPT !.x = @ + Quot((s.bombs[i].vx - scroll) * MaxDt, 1000),
                                     !.y = @ + Quot(s.bombs[i].vy * MaxDt, 1000),
                                     !.vy = @ + 480 * MaxDt]]
  IN [s EXCEPT !.bullets = SelectSeq(bullets, LAMBDA b : BulletInBounds(s, b)),
               !.bombs = bombs]

\* "Update bullets" and the motion part of "Update bombs"
MoveProjectiles(s, dt, lvl) ==
  LET scroll == TotalScrollSpeed(lvl) * 1000
      bullets == [i \in 1..Len(s.bullets) |->
                    [s.bullets[i] EXCEPT !.x = @ + Quot((s.bullets[i].vx - scroll) * dt, 1000),
                                         !.y = @ + Quot(s.bullets[i].vy * dt, 1000)]]
      bombs == [i \in 1..Len(s.bombs) |->
                  [s.bombs[i] EXCEPT !.x = @ + Quot((s.bombs[i].vx - scroll) * dt, 1000),
                                     !.y = @ + Quot(s.bombs[i].vy * dt, 1000),
                                     !.vy = @ + 480 * dt]]
  IN [s EXCEPT !.bullets = SelectSeq(bullets, LAMBDA b : BulletInBounds(s, b)),
               !.bombs = bombs]

\* the motion of one particle by dt and its per-tick velocity decay
MoveParticle(p, dt) ==
  LET x == p.x + Quot(p.vx * dt, 1000)
      y == p.y + Quot(p.vy * dt, 1000)
      fx == IF p.type = "flame" THEN 95 ELSE IF p.type = "spark" THEN 92
            ELSE IF p.type = "debris" THEN 98 ELSE IF p.type = "rocket_exhaust" THEN 90 ELSE 98
      fy == IF p.type = "rocket_exhaust" THEN 94 ELSE fx
      gy == IF p.type = "flame" THEN -20 ELSE IF p.type = "spark" THEN 80
            ELSE IF p.type = "debris" THEN 120 ELSE IF p.type = "rocket_exhaust" THEN 60 ELSE 0
  IN [p EXCEPT !.x = x, !.y = y, !.vx = Quot(p.vx * fx, 100),
               !.vy = Quot(p.vy * fy, 100) + gy * dt, !.age = @ + dt]

\* particles, shockwaves and flashes aged, and none dropped
UpdateEffectsKeepAll(s, dt) ==
  LET ps == [i \in 1..Len(s.particles) |-> MoveParticle(s.particles[i], dt)]
      ws == [i \in 1..Len(s.shockwaves) |->
               [s.shockwaves[i] EXCEPT !.age = @ + dt,
                  !.radius = ((s.shockwaves[i].age + dt) * s.shockwaves[i].maxRadius)
                             \div s.shockwaves[i].life]]
      fs == [i \in 1..Len(s.flashes) |-> [s.flashes[i] EXCEPT !.age = @ + dt]]
  IN [s EXCEPT !.particles = ps, !.shockwaves = ws, !.flashes = fs]

\* particles, shockwaves and flashes: age them and drop the expired
UpdateEffects(s, dt) ==
  LET ps == [i \in 1..Len(s.particles) |-> MoveParticle(s.particles[i], dt)]
      ws == [i \in 1..Len(s.shockwaves) |->
               [s.shockwaves[i] EXCEPT !.age = @ + dt,
                  !.radius = ((s.shockwaves[i].age + dt) * s.shockwaves[i].maxRadius)
                             \div s.shockwaves[i].life]]
      fs == [i \in 1..Len(s.flashes) |-> [s.flashes[i] EXCEPT !.age = @ + dt]]
  IN [s EXCEPT !.particles = SelectSeq(ps, LAMBDA p : p.age < p.life),
               !.shockwaves = SelectSeq(ws, LAMBDA w : w.age < w.life),
               !.flashes = SelectSeq(fs, LAMBDA f : f.age < f.life)]

\* "Level progress" that carries the excess over levelDuration into the next level
LevelProgressCarry(s, dt) ==
  IF s.levelTimer + dt >= s.levelDuration
    THEN [s |-> [s EXCEPT !.levelTimer = s.levelTimer + dt - s.levelDuration], fired |-> TRUE]
    ELSE [s |-> [s EXCEPT !.levelTimer = s.levelTimer + dt], fired |-> FALSE]

\* "Level progress": the state and whether onLevelProgress is called
LevelProgress(s, dt) ==
  LET timer == s.levelTimer + dt
  IN IF timer >= s.levelDuration
       THEN [s |-> [s EXCEPT !.levelTimer = 0], fired |-> TRUE]
       ELSE [s |-> [s EXCEPT !.levelTimer = timer], fired |-> FALSE]

\* The record of a tick that starts in state s0 with timestamp t: the state
\* so far, dt, the signals emitted so far in order, and a trace of the passes
BeginTick(s0, t) ==
  [s |-> [s0 EXCEPT !.lastTime = t],
   dt |-> DeltaTime(s0, t),
   onScore |-> <<>>, onLoseLife |-> 0, onLevelProgress |-> 0,
   steer |-> <<>>, blasts |-> <<>>,
   bulletPass |-> [before |-> <<>>, killed |-> <<>>, used |-> <<>>, bullets |-> <<>>,
                   particles |-> 0],
   shipPass |-> [before |-> <<>>, killed |-> <<>>, flash |-> 0],
   pruned |-> [rockets |-> 0, bullets |-> 0, bombs |-> 0],
   timerBefore |-> s0.levelTimer, lastBefore |-> s0.lastTime,
   rocketPass |-> [accBefore |-> s0.rocketAcc, listed |-> Len(s0.rockets),
                   seen |-> <<>>, updated |-> <<>>],
   levelPass |-> [particles |-> <<>>], effectsPass |-> [levelTimer |-> 0]]

\* updateScreenShake, terrain scroll, ship control, spawnRockets
Advance(m, lvl, rnd) ==
  [m EXCEPT !.s = spawnRockets(
                    ShipControl(
                      ScrollTerrain(
                        updateScreenShake(m.s, m.dt, rnd.shake, Rnd(rnd.shake, 1)),
                        m.dt, lvl),
                      m.dt, lvl),
                    m.dt, lvl, rnd.spawn)]

\* "Update bullets" and the motion of the bombs
Projectiles(m, lvl) ==
  [m EXCEPT !.s = MoveProjectiles(m.s, m.dt, lvl),
            !.pruned.bullets = Len(m.s.bullets) - Len(MoveProjectiles(m.s, m.dt, lvl).bullets)]

\* the tick after the bomb filter returned bp
BombsDone(m, bp) ==
  [m EXCEPT !.s = [bp.s EXCEPT !.bombs = bp.kept],
            !.onScore = bp.onScore, !.blasts = bp.blasts,
            !.pruned.bombs = Len(m.s.bombs) - Len(bp.kept) - Len(bp.blasts)]

\* "Update bombs": the detonations
Bombs(m, nowMs, seed) ==
  BombsDone(m, BombPass([s |-> m.s, kept |-> <<>>, onScore |-> <<>>, blasts |-> <<>>],
                        m.s.bombs, nowMs, seed))

\* the tick after a bullet-rocket filter whose result is not assigned to
\* st.rockets: the rockets hit by bullets stay listed for the rocket-ship pass
BulletsDoneKeepRockets(m, bu) ==
  [m EXCEPT !.s = [bu.s EXCEPT !.rockets = m.s.rockets],
            !.onScore = @ \o (IF Len(bu.killed) # 0 THEN <<Len(bu.killed) * 10>> ELSE <<>>),
            !.bulletPass = [before |-> m.s.rockets, killed |-> bu.killed, used |-> bu.used,
                            bullets |-> m.s.bullets,
                            particles |-> Len(bu.s.particles) - Len(m.s.particles)]]

\* the tick after the bullet-rocket filter returned bu
BulletsDone(m, bu) ==
  [m EXCEPT !.s = [bu.s EXCEPT !.rockets = bu.kept],
            !.onScore = @ \o (IF Len(bu.killed) # 0 THEN <<Len(bu.killed) * 10>> ELSE <<>>),
            !.bulletPass = [before |-> m.s.rockets, killed |-> bu.killed, used |-> bu.used,
                            bullets |-> m.s.bullets,
                            particles |-> Len(bu.s.particles) - Len(m.s.particles)]]

\* "Collisions: bullets vs rockets"
Bullets(m, seed) ==
  BulletsDone(m, BulletPass([s |-> m.s, kept |-> <<>>, killed |-> <<>>, used |-> <<>>],
                            m.s.rockets, seed))

\* the tick after the rocket-ship filter returned sp
ShipDone(m, sp) ==
  [m EXCEPT !.s = [sp.s EXCEPT !.rockets = sp.kept],
            !.onLoseLife = IF Len(sp.killed) # 0 THEN 1 ELSE 0,
            !.shipPass = [before |-> m.s.rockets, killed |-> sp.killed,
                          flash |-> m.s.ship.damageFlash]]

\* "Rockets vs ship"
Ship(m, seed) ==
  ShipDone(m, ShipPass([s |-> m.s, kept |-> <<>>, killed |-> <<>>], m.s.rockets, seed))

\* the tick with the particle updates made before "Level progress" returned lp
LevelDoneEffectsFirst(m, lp) ==
  [m EXCEPT !.s = UpdateEffects(lp.s, m.dt),
            !.onLevelProgress = IF lp.fired THEN 1 ELSE 0,
            !.levelPass.particles = UpdateEffects(m.s, m.dt).particles,
            !.effectsPass.levelTimer = m.s.levelTimer]

\* the tick after "Level progress" returned lp, and the particle updates that
\* follow it.  levelPass holds the particles as "Level progress" met them,
\* effectsPass the level timer as the particle updates met it.
LevelDone(m, lp) ==
  [m EXCEPT !.s = UpdateEffects(lp.s, m.dt),
            !.onLevelProgress = IF lp.fired THEN 1 ELSE 0,
            !.levelPass.particles = m.s.particles,
            !.effectsPass.levelTimer = lp.s.levelTimer]

\* "Level progress" and the particle, shockwave and flash updates
Level(m) == LevelDone(m, LevelProgress(m.s, m.dt))

\* The body of loop(t) run in a render whose level prop is lvl, with
\* performance.now() = nowMs.  rnd holds the tick's Math.random() draws.
\* The result holds the state after the tick, the signals emitted in order,
\* and a trace of the passes.
LoopBody(s0, lvl, t, nowMs, rnd) ==
  Level(
    Ship(
      Bullets(
        Bombs(
          Projectiles(
            UpdateRockets(Advance(BeginTick(s0, t), lvl, rnd), lvl, rnd.exhaust),
            lvl),
          nowMs, rnd.boom),
        rnd.boom),
      rnd.boom))

----------------------------------------------------------------------------
(* App.js                                                                  *)

\* the useState initial values of App
InitialApp ==
  [score |-> 0, level |-> 1, lives |-> InitialLives, paused |-> TRUE, inGame |-> FALSE,
   showStart |-> TRUE, showPause |-> FALSE, showLeaderboard |-> FALSE,
   showRestart |-> FALSE, playerName |-> ""]

\* the running prop App passes to GameCanvas
Running(a) == a.inGame /\ ~a.paused

\* what the functions of one render of GameCanvas close over: the props of that
\* render (the callbacks handleLifeLost/handleGameOver close over score, level
\* and playerName)
Closure(a) ==
  [running |-> Running(a), level |-> a.level, score |-> a.score, playerName |-> a.playerName]

handleStart(a, lvl) ==
  [a EXCEPT !.score = 0, !.level = Min(MAX_LEVEL, IF lvl = 0 THEN 1 ELSE lvl),
            !.lives = InitialLives, !.inGame = TRUE, !.paused = FALSE,
            !.showStart = FALSE, !.showRestart = FALSE]

handlePauseToggle(a) == [a EXCEPT !.paused = ~a.paused, !.showPause = ~a.paused]

handleOpenLeaderboard(a) ==
  [a EXCEPT !.showLeaderboard = TRUE, !.paused = TRUE, !.showPause = FALSE]

handleCloseLeaderboard(a) == [a EXCEPT !.showLeaderboard = FALSE, !.paused = FALSE]

\* handleGameOver of the render c: the three state updates that precede the
\* score submission
handleGameOver(a, c) == [a EXCEPT !.inGame = FALSE, !.paused = TRUE, !.showRestart = TRUE]

\* what LeaderboardAPI.submitScore can do once called: its promise resolves,
\* its promise rejects (fetch fails, res.ok is false, localStorage or JSON.parse
\* throws inside the async function), or the call itself throws
SubmitOutcomes == {"resolves", "rejects", "throws"}

\* no game over in this step
NoSubmit ==
  [called |-> FALSE, outcome |-> "none", warned |-> FALSE, raised |-> FALSE,
   score |-> 0, level |-> 0]

\* a submission without the try/catch: a failure leaves handleGameOver
submitUncaught(c, outcome) ==
  IF c.playerName = ""
    THEN NoSubmit
    ELSE [called |-> TRUE, outcome |-> outcome, warned |-> FALSE,
          raised |-> outcome # "resolves", score |-> c.score, level |-> c.level]

\* the try/catch of handleGameOver of the render c: submitScore is called if
\* playerName is not empty, with the score and level of that render; a failure
\* is caught and logged with console.warn
submit(c, outcome) ==
  IF c.playerName = ""
    THEN NoSubmit
    ELSE [called |-> TRUE, outcome |-> outcome, warned |-> outcome # "resolves",
          raised |-> FALSE, score |-> c.score, level |-> c.level]

\* setScore(delta) in place of setScore(s => s + delta)
handleScoredOverwrite(a, delta) == [a EXCEPT !.score = delta]

handleScored(a, delta) == [a EXCEPT !.score = @ + delta]

\* a life counter without the game over
handleLifeLostOnly(a, c) == [a EXCEPT !.lives = a.lives - 1]

\* handleLifeLost of the render c
handleLifeLost(a, c) ==
  IF a.lives - 1 <= 0
    THEN [handleGameOver(a, c) EXCEPT !.lives = 0]
    ELSE [a EXCEPT !.lives = a.lives - 1]

\* setLevel(l => l + 1)
handleLevelProgressUncapped(a) == [a EXCEPT !.level = a.level + 1]

handleLevelProgress(a) == [a EXCEPT !.level = Min(MAX_LEVEL, a.level + 1)]

RECURSIVE ApplyScores(_, _)
ApplyScores(a, deltas) ==
  IF deltas = <<>> THEN a ELSE ApplyScores(handleScored(a, Head(deltas)), Tail(deltas))

\* the tick's onLoseLife takes the last life: handleLifeLost calls handleGameOver
GameOver(a, body) ==
  body.onLoseLife > 0 /\ ApplyScores(a, body.onScore).lives - 1 <= 0

\* the outcomes of the submitScore call of a tick of the render c, if it makes one
Submissions(a, c, body) ==
  IF GameOver(a, body) /\ c.playerName # "" THEN SubmitOutcomes ELSE {"none"}

\* the callbacks a tick of the render c invoked, applied to the App state
ApplySignals(a, c, body) ==
  LET a1 == ApplyScores(a, body.onScore)
      a2 == IF body.onLoseLife > 0 THEN handleLifeLost(a1, c) ELSE a1
  IN IF body.onLevelProgress > 0 THEN handleLevelProgress(a2) ELSE a2

\* The effects of GameCanvas that run after a render with props c1 that follows
\* a render with props c0: useEffect(buildAllScenery, [level]) and the run
\* effect on [running, level], which requests a frame for the loop of the new
\* render.  The result holds the state and the callback queue.
Effects(c0, c1, s, q) ==
  LET levelChanged == c1.level # c0.level
      runChanged == c1.running # c0.running
      s1 == IF levelChanged THEN buildAllScenery(s, c1.level) ELSE s
  IN IF (levelChanged \/ runChanged) /\ c1.running
       THEN [s |-> [s1 EXCEPT !.lastTime = 0], q |-> Append(q, c1)]
       ELSE [s |-> s1, q |-> q]

\* resize() of the mount render (its buildAllScenery closes over level 1)
resize(s, w) ==
  buildAllScenery([s EXCEPT !.width = w, !.height = Max(MinHeight, (w * 9) \div 16)],
                  InitialApp.level)

----------------------------------------------------------------------------
(* Steps                                                                   *)

\* out for a step that is no tick
Quiet(kind) ==
  [kind |-> kind, dt |-> 0, level |-> 0, scoreBefore |-> 0, propRunning |-> FALSE, requested |-> FALSE,
   onScore |-> <<>>, onLoseLife |-> 0, onLevelProgress |-> 0, onShoot |-> 0, onBomb |-> 0,
   steer |-> <<>>, blasts |-> <<>>,
   bulletPass |-> [before |-> <<>>, killed |-> <<>>, used |-> <<>>, bullets |-> <<>>,
                   particles |-> 0],
   shipPass |-> [before |-> <<>>, killed |-> <<>>, flash |-> 0],
   pruned |-> [rockets |-> 0, bullets |-> 0, bombs |-> 0],
   timerBefore |-> 0, lastBefore |-> 0, submit |-> NoSubmit,
   rocketPass |-> [accBefore |-> 0, listed |-> 0, seen |-> <<>>, updated |-> <<>>],
   levelPass |-> [particles |-> <<>>], effectsPass |-> [levelTimer |-> 0]]

\* the state once App and GameCanvas are mounted in a parent w px wide: the
\* resize effect and the level effect have run, the run effect did nothing
Mounted(w) == buildAllScenery(resize(InitialState, w), InitialApp.level)

\* React has committed the last state change of App: GameCanvas has rendered
\* with the current props and its effects have run
Committed == rendered = Closure(app)

\* a handler of App that takes the App state to a
AppStep(a, kind) ==
  /\ Committed
  /\ frameQueue = <<>>
  /\ app' = a
  /\ out' = Quiet(kind)
  /\ UNCHANGED <<st, now, rendered, rafQueue, frameQueue, frameTime, shots>>

\* React re-renders App and GameCanvas after a state change and runs the
\* effects of GameCanvas whose dependencies changed
Render ==
  LET e == Effects(rendered, Closure(app), st, rafQueue)
  IN /\ ~Committed
     /\ Len(e.q) + Len(frameQueue) <= MaxChains
     /\ rendered' = Closure(app)
     /\ st' = e.s
     /\ rafQueue' = e.q
     /\ out' = Quiet("render")
     /\ UNCHANGED <<app, now, frameQueue, frameTime, shots>>

\* StartMenu's onStart (any level) or RestartModal's onRestart (level 1)
Start(lvl) ==
  /\ app.showStart \/ (app.showRestart /\ lvl = 1)
  /\ AppStep(handleStart(app, lvl), "start")

\* the Pause/Resume button of the header, or PauseMenu's onResume
PauseToggle == AppStep(handlePauseToggle(app), "pause")

\* the Leaderboard button of the header, of the start menu or of the pause
\* menu; out.propRunning holds the running prop at the click
OpenLeaderboard ==
  /\ Committed
  /\ frameQueue = <<>>
  /\ app' = handleOpenLeaderboard(app)
  /\ out' = [Quiet("openLeaderboard") EXCEPT !.propRunning = Running(app)]
  /\ UNCHANGED <<st, now, rendered, rafQueue, frameQueue, frameTime, shots>>

CloseLeaderboard ==
  /\ app.showLeaderboard
  /\ AppStep(handleCloseLeaderboard(app), "closeLeaderboard")

\* a step of GameCanvas outside the loop that takes the state to s
CanvasStep(s, o) ==
  /\ Committed
  /\ frameQueue = <<>>
  /\ st' = s
  /\ out' = o
  /\ UNCHANGED <<app, now, rendered, rafQueue, frameQueue, frameTime>>

\* onDown for an arrow key, onUp for an arrow key
KeyDown(k) ==
  /\ ~st.keys[k]
  /\ CanvasStep([st EXCEPT !.keys[k] = TRUE], Quiet("keydown"))
  /\ UNCHANGED shots

KeyUp(k) ==
  /\ st.keys[k]
  /\ CanvasStep([st EXCEPT !.keys[k] = FALSE], Quiet("keyup"))
  /\ UNCHANGED shots

\* onDown for ' ': shoot()
Fire ==
  LET r == shoot(st, now)
  IN /\ Len(st.bullets) < MaxBullets
     /\ CanvasStep(r.s, [Quiet("shoot") EXCEPT !.onShoot = IF r.fired THEN 1 ELSE 0])
     /\ shots' = IF r.fired THEN Append(shots, now) ELSE shots

\* onDown for 'b' or 'B': bomb()
DropBomb ==
  LET r == bomb(st, now)
  IN /\ Len(st.bombs) < MaxBombs
     /\ CanvasStep(r.s, [Quiet("bomb") EXCEPT !.onBomb = IF r.fired THEN 1 ELSE 0])
     /\ UNCHANGED shots

\* the ResizeObserver callback: the parent is now w px wide
Resize(w) ==
  /\ st.width # w
  /\ CanvasStep(resize(st, w), Quiet("resize"))
  /\ UNCHANGED shots

\* the browser starts an animation frame d ms later, not after clock value
\* until: the callbacks requested so far are the frame's, all called with the
\* frame's timestamp
BeginFrame(d, until) ==
  /\ Committed
  /\ frameQueue = <<>>
  /\ now + d <= until
  /\ now' = now + d
  /\ frameTime' = now + d
  /\ frameQueue' = rafQueue
  /\ rafQueue' = <<>>
  /\ out' = Quiet("frame")
  /\ UNCHANGED <<app, st, rendered, shots>>

\* the outcome of a call of loop of the render c whose body returned body:
\* the App callbacks it invoked, and the frame it requests if the running
\* prop of its render is true
Looped(c, body) ==
  /\ Len(body.s.rockets) <= MaxRockets
  /\ Len(body.s.particles) <= MaxParticles
  /\ app' = ApplySignals(app, c, body)
  /\ st' = body.s
  /\ rafQueue' = IF c.running THEN Append(rafQueue, c) ELSE rafQueue
  /\ frameQueue' = Tail(frameQueue)
  /\ \E o \in Submissions(app, c, body) :
       out' = [kind |-> "tick", dt |-> body.dt, level |-> c.level, scoreBefore |-> app.score,
               propRunning |-> Running(app), requested |-> c.running,
               onScore |-> body.onScore, onLoseLife |-> body.onLoseLife,
               onLevelProgress |-> body.onLevelProgress, onShoot |-> 0, onBomb |-> 0,
               steer |-> body.steer, blasts |-> body.blasts,
               bulletPass |-> body.bulletPass, shipPass |-> body.shipPass,
               pruned |-> body.pruned, timerBefore |-> body.timerBefore,
               lastBefore |-> body.lastBefore, rocketPass |-> body.rocketPass,
               levelPass |-> body.levelPass, effectsPass |-> body.effectsPass,
               submit |-> IF GameOver(app, body) THEN submit(c, o) ELSE NoSubmit]
  /\ UNCHANGED <<now, rendered, frameTime, shots>>

\* one call of loop by the browser
Tick(rnd) ==
  /\ Committed
  /\ frameQueue # <<>>
  /\ Looped(Head(frameQueue),
            LoopBody(st, Head(frameQueue).level, frameTime, now, rnd))

\* the Math.random() draws of a tick
Draw(shake, spawn, exhaust, boom) ==
  [shake |-> shake, spawn |-> spawn, exhaust |-> exhaust, boom |-> boom]

----------------------------------------------------------------------------
(* Spec: the mounted application, from the start menu                      *)

Init ==
  /\ app = InitialApp
  /\ st = Mounted(InitialWidth)
  /\ now = 0
  /\ rendered = Closure(InitialApp)
  /\ rafQueue = <<>>
  /\ frameQueue = <<>>
  /\ frameTime = 0
  /\ shots = <<>>
  /\ out = Quiet("init")

Next ==
  \/ Start(1)
  \/ PauseToggle
  \/ Render
  \/ Fire
  \/ \E d \in {20, 40} : BeginFrame(d, MaxNow)
  \/ Tick(Draw(0, 500, 999, 500))

Spec == Init /\ [][Next]_vars

----------------------------------------------------------------------------
(* States of a game in progress                                            *)

\* App and canvas after StartMenu's onStart(lvl) in a parent w px wide and the
\* render that follows: the level effect has rebuilt the scenery and the run
\* effect has requested the first frame (q)
Started(w, lvl) ==
  [app |-> handleStart(InitialApp, lvl),
   st |-> Effects(Closure(InitialApp), Closure(handleStart(InitialApp, lvl)),
                  Mounted(w), <<>>).s,
   q |-> <<Closure(handleStart(InitialApp, lvl))>>]

\* App and canvas after a call of loop of the render c returned body
Called(g, c, body) == [app |-> ApplySignals(g.app, c, body), st |-> body.s]

\* App and canvas after n animation frames d ms apart, the first at t + d,
\* each calling the loop of the render c once, as long as the game is on
RECURSIVE Frames(_, _, _, _, _, _)
Frames(g, c, t, d, n, rnd) ==
  IF n = 0 \/ ~Running(g.app) THEN g
  ELSE Frames(Called(g, c, LoopBody(g.st, c.level, t + d, t + d, rnd)),
              c, t + d, d, n - 1, rnd)

\* App and canvas after n animation frames d ms apart, the first at t + d,
\* before each of which the player pressed or released the key k
RECURSIVE Mashed(_, _, _, _, _, _, _)
Mashed(g, c, t, d, n, k, rnd) ==
  IF n = 0 \/ ~Running(g.app) THEN g
  ELSE Mashed(Called(g, c, LoopBody([g.st EXCEPT !.keys[k] = ~@], c.level, t + d, t + d, rnd)),
              c, t + d, d, n - 1, k, rnd)

----------------------------------------------------------------------------
(* SpecClamp: the ship under every key combination                         *)

\* animation frames are FrameMs apart
FrameMs == 33
\* the player has held one vertical arrow key for 0 or HoldFrames frames
HoldFrames == 34
\* frames that follow under any key combination
ClampFrames == 1
ClampWidths == {640, 1280}
ClampLevels == {1, 49, 100}

\* A game started at level lvl in a parent w px wide, in which the player
\* pressed k and held it for n frames
InitClamp ==
  \E w \in ClampWidths, lvl \in ClampLevels, k \in {"ArrowUp", "ArrowDown"},
     n \in {0, HoldFrames} :
    \E g0 \in {Started(w, lvl)} :
      \E g \in {Frames([app |-> g0.app, st |-> [g0.st EXCEPT !.keys[k] = TRUE]],
                       Closure(g0.app), (HoldFrames - n) * FrameMs, FrameMs, n,
                       Draw(0, 500, 999, 500))} :
        /\ Closure(g.app).level = lvl
        /\ Running(g.app)
        /\ app = g.app
        /\ st = g.st
        /\ now = HoldFrames * FrameMs
        /\ rendered = Closure(g.app)
        /\ rafQueue = g0.q
        /\ frameQueue = <<>>
        /\ frameTime = now
        /\ shots = <<>>
        /\ out = Quiet("init")

NextClamp ==
  \/ \E k \in KeyNames : KeyDown(k)
  \/ \E k \in KeyNames : KeyUp(k)
  \/ \E w \in ClampWidths : Resize(w)
  \/ BeginFrame(FrameMs, (HoldFrames + ClampFrames) * FrameMs)
  \/ Tick(Draw(0, 500, 999, 500))

SpecClamp == InitClamp /\ [][NextClamp]_vars

\* C2: at the end of every tick, whatever keys are held, at every level and
\* in every viewport, 40 <= ship.y <= groundYAt(ship.x) - ship.h - 10 with
\* the terrain and scroll offset of that tick.
C2_ShipWithinClamp ==
  out.kind = "tick" =>
    /\ Ceiling * 1000 <= st.ship.y
    /\ st.ship.y <= groundYAt(st, st.ship.x) - st.ship.h - GroundMargin * 1000

\* a tick of the smallest viewport at level 100 that moved the ship with
\* ArrowDown held and left it resting on the ground clamp
C2_Witness ==
  /\ out.kind = "tick" /\ out.dt > 0 /\ out.level = 100
  /\ st.height = MinHeight
  /\ st.keys["ArrowDown"] /\ ~st.keys["ArrowUp"]
  /\ st.ship.y = groundYAt(st, st.ship.x) - st.ship.h - GroundMargin * 1000

\* C14: after any sequence of level changes and viewport resizes the terrain
\* is the one the generator produces for the current level and the current
\* viewport width and height, once the handler's render is committed (the
\* samples at x = 0, 300 and 1200 px are compared).
C14_TerrainMatchesLevelAndViewport ==
  Committed =>
    /\ st.terrain.n = TerrainLen(st.width)
    /\ \A i \in {0, 50, 200} :
         TerrainY(st.terrain.level, st.terrain.height, i)
           = TerrainY(rendered.level, st.height, i)

----------------------------------------------------------------------------
(* SpecLevel: a game of level 1 left alone until the level timer runs out  *)

\* frames are FrameMs apart; from LevelLate on a frame may also come after
\* ShortFrameMs; the clock stops at LevelUntil
ShortFrameMs == 16
LevelLate == 19930
LevelUntil == 20100

\* the game right after StartMenu's onStart(1) and the render that follows
InitLevel ==
  \E g0 \in {Started(InitialWidth, 1)} :
    /\ app = g0.app
    /\ st = g0.st
    /\ now = 0
    /\ rendered = Closure(g0.app)
    /\ rafQueue = g0.q
    /\ frameQueue = <<>>
    /\ frameTime = 0
    /\ shots = <<>>
    /\ out = Quiet("init")

NextLevel ==
  \/ BeginFrame(FrameMs, LevelUntil)
  \/ now >= LevelLate /\ BeginFrame(ShortFrameMs, LevelUntil)
  \/ Tick(Draw(0, 500, 999, 500))
  \/ Render

SpecLevel == InitLevel /\ [][NextLevel]_vars

\* C7: the level timer grows by dt (ms) per tick; the tick in which it
\* reaches levelDuration calls onLevelProgress once and leaves the timer at
\* exactly 0; no other tick calls onLevelProgress; at the end of every tick
\* 0 <= levelTimer < levelDuration.
C7_LevelTimer ==
  out.kind = "tick" =>
    /\ out.onLevelProgress = (IF out.timerBefore + out.dt >= LevelDuration THEN 1 ELSE 0)
    /\ st.levelTimer = (IF out.timerBefore + out.dt >= LevelDuration
                          THEN 0 ELSE out.timerBefore + out.dt)
    /\ 0 <= st.levelTimer
    /\ st.levelTimer < st.levelDuration

\* a tick that took the timer beyond levelDuration, called onLevelProgress
\* and left the timer at 0
C7_Witness ==
  /\ out.kind = "tick"
  /\ out.timerBefore < LevelDuration
  /\ out.timerBefore + out.dt > LevelDuration
  /\ out.onLevelProgress = 1
  /\ st.levelTimer = 0
  /\ app.level = 2

\* C13: after the level is incremented, every tick that advances simulation
\* time (dt > 0) computes scroll speed, rocket gravity, spawn rate and the
\* parameters of new rockets from the new level: the level its loop closes
\* over is the level of the last render.
C13_TicksUseCurrentLevel ==
  (out.kind = "tick" /\ out.dt > 0) => out.level = rendered.level

----------------------------------------------------------------------------
(* SpecPrune: bullets, bombs and rockets that leave the simulation bounds  *)

\* the player fires and drops bombs up to FireUntil; the clock stops at PruneUntil
FireUntil == 33
PruneUntil == 5000
PruneGames == {[level |-> 1, width |-> 640], [level |-> 100, width |-> 1280]}

\* the game right after StartMenu's onStart(lvl) and the render that follows
InitPrune ==
  \E game \in PruneGames :
    \E g0 \in {Started(game.width, game.level)} :
      /\ app = g0.app
      /\ st = g0.st
      /\ now = 0
      /\ rendered = Closure(g0.app)
      /\ rafQueue = g0.q
      /\ frameQueue = <<>>
      /\ frameTime = 0
      /\ shots = <<>>
      /\ out = Quiet("init")

NextPrune ==
  \/ now <= FireUntil /\ Fire
  \/ now <= FireUntil /\ DropBomb
  \/ BeginFrame(FrameMs, PruneUntil)
  \/ Tick(Draw(0, 500, 999, 500))
  \/ Render

SpecPrune == InitPrune /\ [][NextPrune]_vars

\* C8: at the end of every tick the lists hold no rocket with x <= -60 or
\* y >= height + 60, no bullet with x <= -40 or x >= width + 40, and no bomb
\* with x <= -40 or y >= height + 40.
C8_NoEntityOutOfBounds ==
  out.kind = "tick" =>
    /\ \A i \in 1..Len(st.rockets) :
         st.rockets[i].x > -60000 /\ st.rockets[i].y < st.height * 1000 + 60000
    /\ \A i \in 1..Len(st.bullets) :
         st.bullets[i].x > -40000 /\ st.bullets[i].x < st.width * 1000 + 40000
    /\ \A i \in 1..Len(st.bombs) :
         st.bombs[i].x > -40000 /\ st.bombs[i].y < st.height * 1000 + 40000

\* a tick whose bullet filter dropped a bullet that had reached the right edge
C8_Witness ==
  /\ out.kind = "tick"
  /\ out.pruned.bullets = 1
  /\ out.bulletPass.used = <<>>
  /\ Len(shots) > Len(st.bullets)

\* the x (mpx) at which the ground is looked up: the entities' and, around
\* both ends of the terrain array, the first and last x of a sample
GroundProbes ==
  {st.ship.x}
    \cup {st.bombs[i].x : i \in 1..Len(st.bombs)}
    \cup {st.rockets[i].x : i \in 1..Len(st.rockets)}
    \cup {k * TerrainStep * 1000 - st.terrainOffset + d :
            k \in {-1, 0, 1, st.terrain.n - 1, st.terrain.n, st.terrain.n + 1},
            d \in {0, TerrainStep * 1000 - 1}}

\* the index of the sample that holds x: 6 idx <= x + terrainOffset < 6 (idx + 1)
SampleIndex(x) == (x + st.terrainOffset) \div (TerrainStep * 1000)

\* C18: groundYAt(x) is the y of the terrain sample of index
\* floor((x + terrainOffset) / 6) when that index is in the array, and
\* 0.85 * height for every index outside it, an empty array included; the
\* result is always a number.
C18_GroundHeightOrDefault ==
  /\ \A x \in GroundProbes :
       /\ groundYAt(st, x) \in Int
       /\ groundYAt(st, x) =
            IF SampleIndex(x) \in 0..(st.terrain.n - 1)
              THEN TerrainY(st.terrain.level, st.terrain.height, SampleIndex(x))
              ELSE (st.height * 1000 * 85) \div 100
       /\ groundYAt([st EXCEPT !.terrain.n = 0], x) = (st.height * 1000 * 85) \div 100
  /\ InitialState.terrain.n = 0
  /\ groundYAt(InitialState, st.ship.x) = (InitialState.height * 1000 * 85) \div 100

\* a tick has looked the ground up for a bomb more than 40 px left of the
\* first sample, got the default and dropped the bomb without a detonation
C18_Witness ==
  /\ out.kind = "tick"
  /\ out.pruned.bombs > 0
  /\ out.blasts = <<>>
  /\ groundYAt(st, -40000 - st.terrainOffset) = st.height * 850

\* a successful shot, or a bomb still listed, is younger than its cooldown
ShotCoolingDown == shots # <<>> /\ now - shots[Len(shots)] < ShotCooldown
BombCoolingDown == \E i \in 1..Len(st.bombs) : now - st.bombs[i].spawn < BombCooldown

C31_NoRocketAboveOrUnderGround ==
  out.kind = "tick" =>
    \A i \in 1..Len(st.rockets) :
      /\ st.rockets[i].y > -60000
      /\ st.rockets[i].y < groundYAt(st, st.rockets[i].x)

\* the three flags of rocket r are equal
FlagsEqual(r) == r.active = r.targetingEnabled /\ r.active = r.interceptMode

\* C22: the rockets a tick adds are dormant (active, targetingEnabled and
\* interceptMode false); a dormant rocket is active after its update exactly
\* when the tick found r.y < groundYAt(r.x) - 30; an active rocket stays
\* active; the three flags of every rocket are equal.
C22_RocketLifecycle ==
  /\ \A i \in 1..Len(st.rockets) : FlagsEqual(st.rockets[i])
  /\ out.kind = "tick" =>
       /\ Len(out.rocketPass.updated) = Len(out.rocketPass.seen)
       /\ \A i \in 1..Len(out.rocketPass.seen) :
            /\ FlagsEqual(out.rocketPass.seen[i]) /\ FlagsEqual(out.rocketPass.updated[i])
            /\ i > out.rocketPass.listed => ~out.rocketPass.seen[i].active
            /\ out.rocketPass.updated[i].active =
                 (\/ out.rocketPass.seen[i].active
                  \/ out.rocketPass.seen[i].y
                       < groundYAt(st, out.rocketPass.seen[i].x) - 30000)

\* a tick activated a rocket that the ticks before it had left dormant
C22_Witness ==
  /\ out.kind = "tick"
  /\ \E i \in 1..out.rocketPass.listed :
       /\ ~out.rocketPass.seen[i].active /\ out.rocketPass.updated[i].active
       /\ out.rocketPass.seen[i].launched

\* the spawn accumulator of a tick once dt * (0.5 + 0.03 level) is added, and
\* the rockets the tick added
AccGrown == out.rocketPass.accBefore + out.dt * (500 + 30 * out.level)
Spawned == Len(out.rocketPass.seen) - out.rocketPass.listed

\* C23: a tick adds dt * (0.5 + 0.03 level) to the spawn accumulator and emits
\* one rocket, taking 1 off, when the sum exceeds 1; after every tick
\* 0 <= rocketAcc <= 1 and at most one rocket was spawned.
C23_SpawnAccumulator ==
  /\ 0 <= st.rocketAcc /\ st.rocketAcc <= 1000000
  /\ out.kind = "tick" =>
       /\ Spawned = (IF AccGrown > 1000000 THEN 1 ELSE 0)
       /\ st.rocketAcc = AccGrown - Spawned * 1000000

\* a tick at level 100 took the accumulator over 1 and spawned one rocket
C23_Witness ==
  /\ out.kind = "tick"
  /\ out.level = 100
  /\ out.dt > 0
  /\ AccGrown > 1000000
  /\ Spawned = 1
  /\ st.rocketAcc < 1000000

----------------------------------------------------------------------------
(* SpecBomb: bombs dropped at the start of a game                          *)

\* the clock stops at BombUntil; a frame may come StallMs late (the tab was in
\* the background, the game was paused)
BombUntil == 1400
StallMs == 500
\* level 1 in a small parent (a bomb reaches the ground first), level 100 (a
\* bomb is scrolled out of the bounds first) and level 1 in a tall parent (the
\* fuse ends first)
BombGames == {[level |-> 1, width |-> 640], [level |-> 100, width |-> 1280],
              [level |-> 1, width |-> 2560]}

InitBomb ==
  \E game \in BombGames :
    \E g0 \in {Started(game.width, game.level)} :
      /\ app = g0.app
      /\ st = g0.st
      /\ now = 0
      /\ rendered = Closure(g0.app)
      /\ rafQueue = g0.q
      /\ frameQueue = <<>>
      /\ frameTime = 0
      /\ shots = <<>>
      /\ out = Quiet("init")

NextBomb ==
  \/ now <= FireUntil /\ DropBomb
  \/ \E d \in {FrameMs, StallMs} : BeginFrame(d, BombUntil)
  \/ Tick(Draw(0, 500, 999, 500))

SpecBomb == InitBomb /\ [][NextBomb]_vars

\* a step that is a call of loop
LoopCalled == frameQueue # <<>> /\ frameQueue' = Tail(frameQueue) /\ out'.kind = "tick"

\* the bombs of a tick after their motion
BombsMoved == MoveProjectiles(st, out'.dt, out'.level).bombs

\* bomb b, moved, is due in this tick: its fuse has run out or it is within
\* 4 px of the ground
Due(b) == now - b.spawn > BombFuse \/ b.y > groundYAt(st', b.x) - 4000

\* bomb b, moved, is inside the bounds
BombInBounds(b) == b.y < st.height * 1000 + 40000 /\ b.x > -40000

\* the centres of the detonations of a tick, in order
BlastCentres == [i \in 1..Len(out'.blasts) |-> <<out'.blasts[i].x, out'.blasts[i].y>>]

\* the centres of the bombs of seq for which Test holds, in order
RECURSIVE CentresOf(_, _)
CentresOf(seq, due) ==
  IF seq = <<>> THEN <<>>
  ELSE (IF due[1] THEN <<<<Head(seq).x, Head(seq).y>>>> ELSE <<>>)
         \o CentresOf(Tail(seq), Tail(due))

\* the bombs of seq for which keep holds, in order
RECURSIVE Kept(_, _)
Kept(seq, keep) ==
  IF seq = <<>> THEN <<>>
  ELSE (IF keep[1] THEN <<Head(seq)>> ELSE <<>>) \o Kept(Tail(seq), Tail(keep))

\* C20 as claimed: in every tick the bombs that are due detonate, each once and
\* with its area-destroy pass, and a bomb leaves the list only by detonating.
C20_EveryBombDetonates ==
  [][LoopCalled =>
       /\ BlastCentres = CentresOf(BombsMoved, [i \in 1..Len(BombsMoved) |-> Due(BombsMoved[i])])
       /\ st'.bombs = Kept(BombsMoved, [i \in 1..Len(BombsMoved) |-> ~Due(BombsMoved[i])])]_vars

\* C20: in every tick the bombs that are due (fuse run out, or within 4 px of
\* the ground) detonate, each once and with its area-destroy pass, and leave
\* the list; of the others, those inside the bounds stay listed and those
\* outside (x <= -40) are dropped without a detonation.
C20_DueBombDetonatesOnce ==
  [][LoopCalled =>
       /\ BlastCentres = CentresOf(BombsMoved, [i \in 1..Len(BombsMoved) |-> Due(BombsMoved[i])])
       /\ st'.bombs = Kept(BombsMoved, [i \in 1..Len(BombsMoved) |->
                                         ~Due(BombsMoved[i]) /\ BombInBounds(BombsMoved[i])])
       /\ \A i \in 1..Len(st'.bombs) : ~Due(st'.bombs[i])]_vars

\* C33: at the end of every tick every listed particle, shockwave and flash
\* has age < life, and every listed shockwave has radius < maxRadius.
C33_EffectsAlive ==
  out.kind = "tick" =>
    /\ \A i \in 1..Len(st.particles) : st.particles[i].age < st.particles[i].life
    /\ \A i \in 1..Len(st.flashes) : st.flashes[i].age < st.flashes[i].life
    /\ \A i \in 1..Len(st.shockwaves) :
         /\ st.shockwaves[i].age < st.shockwaves[i].life
         /\ st.shockwaves[i].radius < st.shockwaves[i].maxRadius

\* a tick after which the shockwave of a bomb blast is still growing while the
\* flash of the same blast (life 150) has expired and left the list
C33_Witness ==
  /\ out.kind = "tick"
  /\ st.flashes = <<>>
  /\ st.particles # <<>>
  /\ \E i \in 1..Len(st.shockwaves) :
       st.shockwaves[i].age >= 150 /\ st.shockwaves[i].radius > 0

\* the simulated time (ms) bomb b has been falling for: its vy started at 120
\* and grew by 480 dt in every tick
SimulatedAge(b) == (b.vy - 120000) \div 480

\* C32: the fuse counts simulated time: a bomb that a tick detonates in the
\* air, by its fuse, has been simulated for more than 1200 ms.
C32_FuseCountsSimulatedTime ==
  [][LoopCalled =>
       \A i \in 1..Len(BombsMoved) :
         (/\ now - BombsMoved[i].spawn > BombFuse
          /\ BombsMoved[i].y <= groundYAt(st', BombsMoved[i].x) - 4000)
           => SimulatedAge(BombsMoved[i]) > BombFuse]_vars

\* a tick in which the fuse of a bomb in the air ended: it detonated and left
\* the list
C20_Witness ==
  /\ out.kind = "tick"
  /\ Len(out.blasts) = 1
  /\ out.blasts[1].y < groundYAt(st, out.blasts[1].x) - 4000
  /\ st.bombs = <<>>

----------------------------------------------------------------------------
(* SpecSteer: a rocket in flight while the player mashes a key             *)

\* the game is left alone for IdleFrames frames (the first rocket is in
\* flight), then the player presses or releases ArrowUp before each of
\* MashFrames frames; SteerFrames frames follow
IdleFrames == 76
MashFrames == 40
SteerFrames == 3
\* the error of a difference of two headings computed by Atan2, mrad
AngleTol == 50

InitSteer ==
  \E g0 \in {Started(InitialWidth, 1)} :
    \E g \in {Mashed(Frames([app |-> g0.app, st |-> g0.st], Closure(g0.app),
                            0, FrameMs, IdleFrames, Draw(0, 500, 999, 500)),
                     Closure(g0.app), IdleFrames * FrameMs, FrameMs, MashFrames,
                     "ArrowUp", Draw(0, 500, 999, 500))} :
      /\ Running(g.app)
      /\ Closure(g.app) = Closure(g0.app)
      /\ app = g.app
      /\ st = g.st
      /\ now = (IdleFrames + MashFrames) * FrameMs
      /\ rendered = Closure(g.app)
      /\ rafQueue = g0.q
      /\ frameQueue = <<>>
      /\ frameTime = now
      /\ shots = <<>>
      /\ out = Quiet("init")

NextSteer ==
  \/ \E k \in {"ArrowUp", "ArrowDown"} : KeyDown(k)
  \/ \E k \in {"ArrowUp", "ArrowDown"} : KeyUp(k)
  \/ BeginFrame(FrameMs, (IdleFrames + MashFrames + SteerFrames) * FrameMs)
  \/ Tick(Draw(0, 500, 999, 500))

SpecSteer == InitSteer /\ [][NextSteer]_vars

\* C9: in every tick the heading of every active, intercepting rocket (the
\* angle of its velocity vector) changes by at most maxTurnRate * dt between
\* the start and the end of the tick.
C9_HeadingChangeWithinTurnRate ==
  out.kind = "tick" =>
    \A i \in 1..Len(out.steer) :
      Abs(WrapPi(out.steer[i].to - out.steer[i].from)) <= out.steer[i].maxTurn + AngleTol

----------------------------------------------------------------------------
(* SpecCollide: rockets, bullets and bombs around the ship                 *)

\* the clock when the game resumes, and the frames that follow
CollideNow == 5000
CollideFrames == 2
\* at most this many rockets are listed when the game resumes
CollideRockets == 4

\* a rocket of level 1 in flight with its top left corner at (x, y)
RocketAt(x, y) ==
  [x |-> x, y |-> y, vx |-> -200000, vy |-> -50000,
   w |-> RocketW * 1000, h |-> RocketH * 1000,
   active |-> TRUE, launched |-> TRUE, targetingEnabled |-> TRUE,
   steeringForce |-> 195000, predictionTime |-> 900, maxTurnRate |-> 2800,
   interceptMode |-> TRUE,
   lastTargetX |-> ShipStartX * 1000 + (ShipW * 1000) \div 2,
   lastTargetY |-> ShipStartY * 1000 + (ShipH * 1000) \div 2]

\* a bullet with its centre at (x, y)
BulletAt(x, y) == [x |-> x, y |-> y, vx |-> BulletVx * 1000, vy |-> 0, r |-> BulletR * 1000]

\* a bomb with its centre at (x, y), dropped at clock value t
BombAt(x, y, t) ==
  [x |-> x, y |-> y, vx |-> 60000, vy |-> 120000, r |-> BombR * 1000,
   fuse |-> BombFuse, spawn |-> t]

\* The ship is at its start position, its box is [120, 158] x [360, 382].
\* Bombs: one as dropped by the ship, centre (139, 382), and one at (230, 300),
\* both 1190 ms old.
NearBombs == <<BombAt(139000, 382000, CollideNow - 1190),
               BombAt(230000, 300000, CollideNow - 1190)>>

\* Bullets, oldest first: one far ahead, one 16 ms of flight from the nose of
\* the ship, one as fired
NearBullets == <<BulletAt(600000, 200000), BulletAt(164672, 368800),
                 BulletAt(158000, 368800)>>

\* Rockets: one over the ship's box and both near bullets; one over the second
\* bullet only; one whose centre (193, 310) is exactly 90 px from
\* the first bomb and one 0.001 px nearer; one far from everything; one over
\* the far bullet; one over the ship's box only
NearRockets == <<RocketAt(157000, 365000), RocketAt(162000, 350000),
                 RocketAt(189000, 301000), RocketAt(189000, 301001),
                 RocketAt(700000, 200000), RocketAt(598000, 195000),
                 RocketAt(130000, 345000)>>

\* the elements of seq at the indices in idx, in the order of seq
RECURSIVE Pick(_, _, _)
Pick(seq, idx, i) ==
  IF i > Len(seq) THEN <<>>
  ELSE (IF i \in idx THEN <<seq[i]>> ELSE <<>>) \o Pick(seq, idx, i + 1)

\* seq back to front
Reverse(seq) == [i \in 1..Len(seq) |-> seq[Len(seq) + 1 - i]]

\* A game of level 1 that was paused and has just resumed: the run effect
\* reset lastTime and requested a frame for a second loop.  Some of the
\* rockets, bullets and bombs above are listed.
InitCollide ==
  \E g0 \in {Started(InitialWidth, 1)} :
    \E ri \in SUBSET (1..Len(NearRockets)), ui \in SUBSET (1..Len(NearBullets)),
       bi \in SUBSET (1..Len(NearBombs)), back \in BOOLEAN :
      /\ Cardinality(ri) <= CollideRockets
      /\ back => Cardinality(ri) >= 2
      /\ app = g0.app
      /\ st = [g0.st EXCEPT
                 !.rockets = IF back THEN Reverse(Pick(NearRockets, ri, 1))
                             ELSE Pick(NearRockets, ri, 1),
                 !.bullets = Pick(NearBullets, ui, 1),
                 !.bombs = Pick(NearBombs, bi, 1),
                 !.lastShot = IF ui = {} THEN 0 ELSE CollideNow - 16,
                 !.lastBomb = IF bi = {} THEN 0 ELSE CollideNow - 1190]
      /\ now = CollideNow
      /\ rendered = Closure(g0.app)
      /\ rafQueue = g0.q \o g0.q
      /\ frameQueue = <<>>
      /\ frameTime = now
      /\ shots = <<>>
      /\ out = Quiet("init")

NextCollide ==
  \/ BeginFrame(FrameMs, CollideNow + CollideFrames * FrameMs)
  \/ Tick(Draw(0, 500, 999, 500))
  \/ Render

SpecCollide == InitCollide /\ [][NextCollide]_vars

----------------------------------------------------------------------------
(* SpecGameOver: the last lives of a game, with and without a player name  *)

\* the frames that follow CollideNow
GameOverFrames == 3
\* the names typed in the start menu; "" is the stored default
PlayerNames == {"", "ace"}

\* A game of level 1 in progress at CollideNow: the player has one or two
\* lives left, at most two of the rockets of NearRockets are listed and the
\* first bullet of NearBullets, fired a second earlier and far ahead by now,
\* may be.
InitGameOver ==
  \E g0 \in {Started(InitialWidth, 1)} :
    \E ri \in SUBSET (1..Len(NearRockets)), lives \in 1..2, name \in PlayerNames,
       fired \in BOOLEAN :
      /\ Cardinality(ri) <= 2
      /\ app = [g0.app EXCEPT !.lives = lives, !.playerName = name]
      /\ st = [g0.st EXCEPT !.rockets = Pick(NearRockets, ri, 1),
                            !.bullets = IF fired THEN <<NearBullets[1]>> ELSE <<>>,
                            !.lastShot = IF fired THEN CollideNow - 1000 ELSE 0]
      /\ now = CollideNow
      /\ rendered = Closure(app)
      /\ rafQueue = <<Closure(app)>>
      /\ frameQueue = <<>>
      /\ frameTime = now
      /\ shots = <<>>
      /\ out = Quiet("init")

NextGameOver ==
  \/ BeginFrame(FrameMs, CollideNow + GameOverFrames * FrameMs)
  \/ Tick(Draw(0, 500, 999, 500))
  \/ Render
  \/ Start(1)
  \/ PauseToggle

SpecGameOver == InitGameOver /\ [][NextGameOver]_vars

\* C19: when the submitScore call of a game over rejects or throws, the App is
\* in the game-over state after the tick that signalled the life loss (inGame
\* false, paused true, restart dialog shown, no life left) and no exception
\* left handleGameOver.
C19_SubmitFailureSwallowed ==
  (out.kind = "tick" /\ out.submit.called /\ out.submit.outcome # "resolves") =>
    /\ ~out.submit.raised
    /\ ~app.inGame /\ app.paused /\ app.showRestart /\ app.lives = 0
    /\ ~Running(app)

\* a tick took the last life of a named player and the submission rejected
C19_Witness ==
  /\ out.kind = "tick"
  /\ out.onLoseLife > 0
  /\ out.submit.called /\ out.submit.outcome = "rejects" /\ out.submit.warned
  /\ app.showRestart /\ ~app.inGame

----------------------------------------------------------------------------
(* SpecFlash: the damage flash of the ship after a rocket hit              *)

\* the clock stops FlashFrames frames after the game resumed at CollideNow;
\* until FlashEarly a frame may also come after ShortFrameMs
FlashFrames == 18
FlashEarly == 5100

\* a running level-1 game resumed at CollideNow with at most one rocket near
\* the ship
InitFlash ==
  \E g0 \in {Started(InitialWidth, 1)} :
    \E ri \in SUBSET (1..Len(NearRockets)) :
      /\ Cardinality(ri) <= 1
      /\ app = g0.app
      /\ st = [g0.st EXCEPT !.rockets = Pick(NearRockets, ri, 1)]
      /\ now = CollideNow
      /\ rendered = Closure(app)
      /\ rafQueue = <<Closure(app)>>
      /\ frameQueue = <<>>
      /\ frameTime = now
      /\ shots = <<>>
      /\ out = Quiet("init")

NextFlash ==
  \/ \E d \in {ShortFrameMs, FrameMs} :
       /\ d = ShortFrameMs => now < FlashEarly
       /\ BeginFrame(d, CollideNow + FlashFrames * FrameMs)
  \/ Tick(Draw(0, 500, 999, 500))

SpecFlash == InitFlash /\ [][NextFlash]_vars

\* C34: ship.damageFlash is always in 0..500; a tick in which a rocket hits
\* the ship sets it to 500, any other tick takes dt from it while it is
\* positive and stops at 0, and no other step changes it.
C34_DamageFlash ==
  /\ [](st.ship.damageFlash \in 0..DamageFlashMs)
  /\ [][IF out'.kind = "tick" /\ frameQueue' # frameQueue
         THEN IF out'.shipPass.killed # <<>>
                THEN st'.ship.damageFlash = DamageFlashMs
                ELSE st'.ship.damageFlash =
                       IF st.ship.damageFlash > out'.dt
                         THEN st.ship.damageFlash - out'.dt ELSE 0
         ELSE st'.ship.damageFlash = st.ship.damageFlash]_vars

\* a tick took the last of the flash of an earlier hit: it stopped at 0 from
\* less than dt
C34_Witness ==
  /\ out.kind = "tick"
  /\ out.dt > 0
  /\ out.shipPass.flash = 0
  /\ st.ship.damageFlash = 0
  /\ app.lives < InitialLives
  /\ now - CollideNow <= 17 * FrameMs

\* C26: lives is always in 0..3 and the game is not running when it is 0; a
\* tick that signals onLoseLife while lives > 0 takes exactly one life, and
\* when that was the last one inGame is false and paused is true.
C26_Lives ==
  /\ [](app.lives \in 0..InitialLives /\ (app.lives = 0 => ~Running(app)))
  /\ [][(out'.kind = "tick" /\ frameQueue' # frameQueue
          /\ out'.onLoseLife > 0 /\ app.lives > 0) =>
           /\ app'.lives = app.lives - 1
           /\ app'.lives = 0 => (~app'.inGame /\ app'.paused)]_vars

\* the game is over, the player has toggled pause since and a frame has begun
C26_Witness ==
  /\ app.lives = 0
  /\ app.showRestart
  /\ ~app.paused
  /\ out.kind = "frame"

\* C27: once lives has reached 0 and until the player restarts, no tick
\* signals onLoseLife, so handleGameOver is not invoked and no score is
\* submitted a second time.
C27_GameOverOnce ==
  [][(out'.kind = "tick" /\ frameQueue' # frameQueue
      /\ app.lives = 0 /\ app.showRestart) =>
       /\ out'.onLoseLife = 0
       /\ ~out'.submit.called]_vars

\* C25: after handleStart and the render that follows it the simulation is
\* in its initial state: the ship at its initial position with zero velocity
\* and damage timer, no rocket, bullet or bomb listed, the level timer 0.
C25_RestartResetsSimulation ==
  [][(out.kind = "start" /\ out'.kind = "render") =>
       /\ st'.ship = InitialState.ship
       /\ st'.rockets = <<>>
       /\ st'.bullets = <<>>
       /\ st'.bombs = <<>>
       /\ st'.levelTimer = 0]_vars

----------------------------------------------------------------------------
(* The collision passes of a tick                                          *)

\* the elements of a list
Range(seq) == {seq[i] : i \in 1..Len(seq)}

\* the sum of a list of numbers
RECURSIVE SumSeq(_)
SumSeq(seq) == IF seq = <<>> THEN 0 ELSE Head(seq) + SumSeq(Tail(seq))

\* the list without the elements in gone
Without(seq, gone) == SelectSeq(seq, LAMBDA e : e \notin gone)

\* the centre of rocket r is nearer than d px to (x, y)
CentreNearer(r, x, y, d) ==
  /\ Abs(r.x + r.w \div 2 - x) < d * 1000
  /\ Abs(r.y + r.h \div 2 - y) < d * 1000
  /\ SqSum(r.x + r.w \div 2 - x, r.y + r.h \div 2 - y)[1] < d * d

\* the centre of rocket r is exactly d px from (x, y)
CentreAt(r, x, y, d) ==
  /\ Abs(r.x + r.w \div 2 - x) <= d * 1000
  /\ Abs(r.y + r.h \div 2 - y) <= d * 1000
  /\ SqSum(r.x + r.w \div 2 - x, r.y + r.h \div 2 - y) = <<d * d, 0>>

\* the box of bullet b overlaps the box of rocket r
BulletOverlaps(b, r) ==
  /\ b.x - b.r < r.x + r.w
  /\ b.x + b.r > r.x
  /\ b.y - b.r < r.y + r.h
  /\ b.y + b.r > r.y

\* the box of the ship overlaps the box of rocket r
ShipOverlaps(r) ==
  /\ st.ship.x < r.x + r.w
  /\ st.ship.x + st.ship.w > r.x
  /\ st.ship.y < r.y + r.h
  /\ st.ship.y + st.ship.h > r.y

\* the rockets listed after the i-th detonation of the last tick
AfterBlast(i) ==
  IF i < Len(out.blasts) THEN out.blasts[i + 1].before ELSE out.bulletPass.before

\* the rockets the detonations of the last tick destroyed
BombKilled == UNION {Range(out.blasts[i].killed) : i \in 1..Len(out.blasts)}

\* the onScore deltas the detonations of the last tick should emit, in order
RECURSIVE BlastScores(_)
BlastScores(blasts) ==
  IF blasts = <<>> THEN <<>>
  ELSE (IF Head(blasts).killed = <<>> THEN <<>> ELSE <<20 * Len(Head(blasts).killed)>>)
       \o BlastScores(Tail(blasts))

\* the bullets left when the bullet-rocket pass reaches the n-th rocket it
\* found listed
BulletsLeftAt(n) ==
  Without(out.bulletPass.bullets,
          {out.bulletPass.used[k] : k \in {k \in 1..Len(out.bulletPass.killed) :
             \E i \in 1..(n - 1) : out.bulletPass.before[i] = out.bulletPass.killed[k]}})

\* C4 as stated: a detonation at (x, y) removes exactly the rockets whose
\* centre is at distance <= 90 from (x, y); every rocket farther away stays.
C4_BlastRemovesWithinRadius ==
  out.kind = "tick" =>
    \A i \in 1..Len(out.blasts) :
      LET b == out.blasts[i]
      IN AfterBlast(i) = SelectSeq(b.before, LAMBDA r :
                           ~(CentreNearer(r, b.x, b.y, 90) \/ CentreAt(r, b.x, b.y, 90)))

\* C4 amended: a detonation at (x, y) removes exactly the rockets whose centre
\* is at distance < 90 from (x, y); every rocket at distance 90 or more stays
\* in the list, in its place.
C4_BlastRemovesNearerThanRadius ==
  out.kind = "tick" =>
    \A i \in 1..Len(out.blasts) :
      LET b == out.blasts[i]
      IN /\ b.killed = SelectSeq(b.before, LAMBDA r : CentreNearer(r, b.x, b.y, 90))
         /\ AfterBlast(i) = SelectSeq(b.before, LAMBDA r : ~CentreNearer(r, b.x, b.y, 90))

\* a detonation destroyed a rocket and left one whose centre is exactly 90 px
\* from the bomb
C4_Witness ==
  /\ out.kind = "tick"
  /\ \E i \in 1..Len(out.blasts) :
       /\ out.blasts[i].killed # <<>>
       /\ \E r \in Range(AfterBlast(i)) :
            /\ r \in Range(out.blasts[i].before)
            /\ CentreAt(r, out.blasts[i].x, out.blasts[i].y, 90)

\* C5: a detonation that destroys k rockets emits onScore(20 * k) exactly once
\* when k >= 1 and no onScore when k = 0, and the score rises by what the tick
\* emitted.
C5_BombScore ==
  out.kind = "tick" =>
    /\ Len(out.onScore) = Len(BlastScores(out.blasts))
                          + (IF out.bulletPass.killed = <<>> THEN 0 ELSE 1)
    /\ SubSeq(out.onScore, 1, Len(BlastScores(out.blasts))) = BlastScores(out.blasts)
    /\ \A i \in 1..Len(out.blasts) :
         Len(out.blasts[i].killed) = Len(out.blasts[i].before) - Len(AfterBlast(i))
    /\ app.score = out.scoreBefore + SumSeq(out.onScore)

\* the scenario: 3 rockets inside the radius and 1 outside, onScore(60) and the
\* 4th rocket persists
C5_Witness ==
  /\ out.kind = "tick"
  /\ Len(out.blasts) = 1
  /\ Len(out.blasts[1].before) = 4
  /\ Len(out.blasts[1].killed) = 3
  /\ out.onScore = <<60>>
  /\ app.score = out.scoreBefore + 60
  /\ Len(st.rockets) = 1
  /\ st.rockets[1] \in Range(out.blasts[1].before)

\* C6: in the bullet-rocket pass every rocket whose box overlaps a remaining
\* bullet is removed together with the first such bullet in list order; a
\* bullet removes at most one rocket; rockets removed = bullets removed = hits;
\* one onScore(10 * hits) is emitted when hits > 0, none otherwise, and 12
\* explosion particles are spawned per destroyed rocket.
C6_BulletRocketPass ==
  out.kind = "tick" =>
    LET bp == out.bulletPass
        hits == Len(bp.killed)
    IN /\ Len(bp.used) = hits
       /\ Cardinality(Range(bp.used)) = hits
       /\ Range(bp.used) \subseteq Range(bp.bullets)
       /\ st.bullets = Without(bp.bullets, Range(bp.used))
       /\ Len(st.bullets) = Len(bp.bullets) - hits
       /\ bp.killed = SelectSeq(bp.before, LAMBDA r : r \in Range(bp.killed))
       /\ out.shipPass.before = Without(bp.before, Range(bp.killed))
       /\ \A n \in 1..Len(bp.before) :
            LET r == bp.before[n]
                left == BulletsLeftAt(n)
            IN IF \E j \in 1..Len(left) : BulletOverlaps(left[j], r)
                 THEN \E k \in 1..hits :
                        /\ bp.killed[k] = r
                        /\ \E j \in 1..Len(left) :
                             /\ left[j] = bp.used[k]
                             /\ BulletOverlaps(left[j], r)
                             /\ \A i \in 1..(j - 1) : ~BulletOverlaps(left[i], r)
                 ELSE r \notin Range(bp.killed)
       /\ Len(out.onScore) = Len(BlastScores(out.blasts)) + (IF hits > 0 THEN 1 ELSE 0)
       /\ hits > 0 => out.onScore[Len(out.onScore)] = 10 * hits
       /\ bp.particles = 12 * hits

\* a single hit: the rocket took the first of two bullets over it, and another
\* rocket over the bullet it took stays listed
C6_Witness ==
  /\ out.kind = "tick"
  /\ Len(out.bulletPass.killed) = 1
  /\ out.onScore = <<10>>
  /\ \E j \in 1..Len(st.bullets) : BulletOverlaps(st.bullets[j], out.bulletPass.killed[1])
  /\ \E r \in Range(out.shipPass.before) : BulletOverlaps(out.bulletPass.used[1], r)

\* C10: the passes of a tick run in the order bomb detonation, bullet-rocket,
\* rocket-ship, and a rocket is removed by at most one of them: a rocket
\* destroyed by a bomb is not listed for the bullet pass nor the ship pass, a
\* rocket destroyed by a bullet is not listed for the ship pass, and each
\* destroyed rocket counts for one score award or for the life loss.
C10_OnePassPerRocket ==
  out.kind = "tick" =>
    LET bullet == Range(out.bulletPass.killed)
        ship == Range(out.shipPass.killed)
    IN /\ \A i, j \in 1..Len(out.blasts) :
            i < j => Range(out.blasts[i].killed) \cap Range(out.blasts[j].before) = {}
       /\ BombKilled \cap Range(out.bulletPass.before) = {}
       /\ BombKilled \cap Range(out.shipPass.before) = {}
       /\ bullet \subseteq Range(out.bulletPass.before)
       /\ bullet \cap Range(out.shipPass.before) = {}
       /\ ship \subseteq Range(out.shipPass.before)
       /\ Range(st.rockets) \cap (BombKilled \cup bullet \cup ship) = {}
       /\ Range(st.rockets) = Range(out.shipPass.before) \ ship
       /\ SumSeq(out.onScore) = 20 * Cardinality(BombKilled) + 10 * Cardinality(bullet)
       /\ out.onLoseLife = (IF ship = {} THEN 0 ELSE 1)

\* a bomb destroyed a rocket that is over a bullet, a bullet destroyed a rocket
\* that is over the ship, and no life was lost
C10_Witness ==
  /\ out.kind = "tick"
  /\ \E r \in BombKilled :
       \E j \in 1..Len(out.bulletPass.bullets) : BulletOverlaps(out.bulletPass.bullets[j], r)
  /\ \E r \in Range(out.bulletPass.killed) : r.active /\ ShipOverlaps(r)
  /\ out.onLoseLife = 0

\* C11: every rocket-ship hit removes the rocket, sets the damage-flash timer
\* to 500 ms and signals one life lost: in each tick the number of onLoseLife
\* signals equals the number of rockets the rocket-ship pass removed.
C11_OneLifePerHit ==
  out.kind = "tick" =>
    /\ out.onLoseLife = Len(out.shipPass.killed)
    /\ Range(st.rockets) \cap Range(out.shipPass.killed) = {}
    /\ out.shipPass.killed # <<>> => st.ship.damageFlash = DamageFlashMs

----------------------------------------------------------------------------
(* SpecNarrow: rockets launched next to the ship in a narrow parent        *)

\* the clock stops at NarrowUntil
NarrowUntil == 990
\* the parent widths and the levels of the games
NarrowGames == {[level |-> lvl, width |-> w] : lvl \in {1, 100}, w \in {40, 80}}

\* the game right after StartMenu's onStart(lvl) and the render that follows,
\* in a parent a few tens of px wide (the canvas is then 360 px high and the
\* rockets are launched at the ship's x)
InitNarrow ==
  \E game \in NarrowGames :
    \E g0 \in {Started(game.width, game.level)} :
      /\ app = g0.app
      /\ st = g0.st
      /\ now = 0
      /\ rendered = Closure(g0.app)
      /\ rafQueue = g0.q
      /\ frameQueue = <<>>
      /\ frameTime = 0
      /\ shots = <<>>
      /\ out = Quiet("init")

NextNarrow ==
  \/ BeginFrame(FrameMs, NarrowUntil)
  \/ \E spawn \in {0, 500} : Tick(Draw(0, spawn, 999, 500))

SpecNarrow == InitNarrow /\ [][NextNarrow]_vars

\* C12: a rocket whose active flag is false is never removed by the
\* rocket-ship pass and causes neither onLoseLife nor a damage flash, even
\* when its box overlaps the ship's box.
C12_InactiveRocketPassesShip ==
  out.kind = "tick" =>
    /\ \A r \in Range(out.shipPass.killed) : r.active
    /\ \A r \in Range(out.shipPass.before) : ~r.active => r \in Range(st.rockets)
    /\ (\A r \in Range(out.shipPass.before) : ~(r.active /\ ShipOverlaps(r)))
         => /\ out.onLoseLife = 0
            /\ st.ship.damageFlash = out.shipPass.flash
            /\ st.rockets = out.shipPass.before

\* the rocket-ship pass met a rocket over the ship that was not active yet
C12_Witness ==
  /\ out.kind = "tick"
  /\ \E r \in Range(out.shipPass.before) :
       ~r.active /\ ShipOverlaps(r) /\ r \in Range(st.rockets)
  /\ out.onLoseLife = 0
  /\ st.ship.damageFlash = 0

----------------------------------------------------------------------------
(* The frame loop and the running flag                                     *)

----------------------------------------------------------------------------
(* SpecRestart: the first tick after the loop is started or restarted      *)

\* the game has run for RestartIdle frames; the clock stops RestartFrames
\* frames later
RestartIdle == 60
RestartFrames == 3
RestartWidths == {640, 1280}

\* a game of level 1 in a parent w px wide, RestartIdle frames old (the first
\* rocket is in flight)
InitRestart ==
  \E w \in RestartWidths, n \in {RestartIdle} :
    \E g0 \in {Started(w, 1)} :
      \E g \in {Frames([app |-> g0.app, st |-> g0.st], Closure(g0.app),
                        0, FrameMs, n, Draw(0, 500, 999, 500))} :
        /\ app = g.app
        /\ st = g.st
        /\ now = n * FrameMs
        /\ rendered = Closure(g.app)
        /\ rafQueue = g0.q
        /\ frameQueue = <<>>
        /\ frameTime = now
        /\ shots = <<>>
        /\ out = Quiet("init")

\* the player fires and drops a bomb before the next frame, pauses and
\* resumes at any time, and the parent is resized while the game is paused
NextRestart ==
  \/ now = RestartIdle * FrameMs /\ Fire
  \/ now = RestartIdle * FrameMs /\ DropBomb
  \/ PauseToggle
  \/ Render
  \/ \E w \in RestartWidths : ~Running(app) /\ Resize(w)
  \/ BeginFrame(FrameMs, (RestartIdle + RestartFrames) * FrameMs)
  \/ Tick(Draw(0, 500, 999, 500))

SpecRestart == InitRestart /\ [][NextRestart]_vars

\* the positions of the entities of a list
Positions(seq) == [i \in 1..Len(seq) |-> <<seq[i].x, seq[i].y>>]

\* the list a is the list b with some elements left out
RECURSIVE IsSubSeq(_, _)
IsSubSeq(a, b) ==
  IF a = <<>> THEN TRUE
  ELSE IF b = <<>> THEN FALSE
  ELSE IF Head(a) = Head(b) THEN IsSubSeq(Tail(a), Tail(b))
  ELSE IsSubSeq(a, Tail(b))

\* the step is the first call of loop after the run effect reset lastTime
FirstTick == out'.kind = "tick" /\ st.lastTime = 0

\* in the step, the rockets, bullets, bombs and particles that stay listed
\* keep their positions, and the scroll offset, the spawn accumulator and the
\* level timer keep their values
NothingAdvanced ==
  /\ out'.dt = 0
  /\ IsSubSeq(Positions(st'.rockets), Positions(st.rockets))
  /\ IsSubSeq(Positions(st'.bullets), Positions(st.bullets))
  /\ IsSubSeq(Positions(st'.bombs), Positions(st.bombs))
  /\ Len(st'.particles) >= Len(st.particles)
  /\ Positions(SubSeq(st'.particles, 1, Len(st.particles))) = Positions(st.particles)
  /\ st'.terrainOffset = st.terrainOffset
  /\ st'.rocketAcc = st.rocketAcc
  /\ st'.levelTimer = st.levelTimer

\* C16 as stated: the first tick after the loop is started or restarted has
\* dt = 0 and moves no entity: the positions of the ship, rockets, bullets,
\* bombs and particles, the scroll offset, the spawn accumulator and the level
\* timer are the same after that tick as before it.
C16_FirstTickMovesNothing ==
  [][FirstTick =>
       /\ NothingAdvanced
       /\ st'.ship.x = st.ship.x
       /\ st'.ship.y = st.ship.y]_vars

\* C16 amended: the first tick after the loop is started or restarted has
\* dt = 0 and advances no entity: rockets, bullets, bombs and particles that
\* stay listed keep their positions, the scroll offset, the spawn accumulator
\* and the level timer keep their values, and the ship's position changes
\* only by being clamped into its bounds, x into [20, 0.7 * width] and y into
\* [40, groundYAt(x) - h - 10].
C16_FirstTickAdvancesNothing ==
  [][FirstTick =>
       /\ NothingAdvanced
       /\ st'.ship.x = Max(20000, Min(st.width * 700, st.ship.x))
       /\ st'.ship.y = Max(40000, Min(groundYAt(st', st'.ship.x) - st.ship.h - 10000,
                                      st.ship.y))]_vars

\* the tick after a resume ran with dt = 0 and left a rocket, a bullet and a
\* bomb where they were
C16_Witness ==
  /\ out.kind = "tick"
  /\ out.lastBefore = 0
  /\ out.dt = 0
  /\ Len(rafQueue) + Len(frameQueue) >= 2
  /\ st.rockets # <<>>
  /\ st.bullets # <<>>
  /\ st.bombs # <<>>

\* C15: the delta-time of every tick satisfies 0 <= dt <= 0.033 s, whatever the
\* gap between the tick's timestamp and the previous one.
C15_DeltaTimeClamped ==
  out.kind = "tick" => (0 <= out.dt /\ out.dt <= 33)

\* a tick more than 33 ms after the previous one ran with dt = 0.033 s
C15_Witness ==
  /\ out.kind = "tick"
  /\ out.lastBefore # 0
  /\ st.lastTime - out.lastBefore > 33
  /\ out.dt = 33

\* C1: once the running prop is false (pause, game over, menu), a call of
\* loop requests no further frame: a tick that starts while running is false
\* is the last one until running becomes true again.
C1_LoopStopsWhenNotRunning ==
  (out.kind = "tick" /\ ~out.propRunning) => ~out.requested

\* C21: at most one loop callback is scheduled at any time: the callbacks
\* requested for the next frame and those of the current frame not yet called
\* are one at most, so each frame ticks the simulation at most once.
C21_OneLoopChain == Len(rafQueue) + Len(frameQueue) <= 1

\* C24: while running is false (before a start, paused, after a game over) no
\* step changes the rockets, the bullets or the bombs, and none emits onShoot
\* or onBomb.
C24_FrozenWhileNotRunning ==
  [][(~Running(app) /\ ~Running(app')) =>
       /\ st'.rockets = st.rockets
       /\ st'.bullets = st.bullets
       /\ st'.bombs = st.bombs
       /\ out'.onShoot = 0
       /\ out'.onBomb = 0]_vars

----------------------------------------------------------------------------
(* SpecSession: the level, the pause and the leaderboard of a game         *)

\* the level clock of the game has LevelLeft ms left; the clock stops
\* SessionFrames frames after the game resumed at CollideNow
LevelLeft == 30
SessionFrames == 3

\* the levels StartMenu's onStart is called with; 0 stands for no level
StartLevels == {0, 1, 99, 100}

\* a running game started at one of StartLevels, resumed at CollideNow
InitSession ==
  \E lvl \in StartLevels :
    \E g0 \in {Started(InitialWidth, lvl)} :
      /\ app = g0.app
      /\ st = [g0.st EXCEPT !.levelTimer = LevelDuration - LevelLeft]
      /\ now = CollideNow
      /\ rendered = Closure(g0.app)
      /\ rafQueue = g0.q
      /\ frameQueue = <<>>
      /\ frameTime = now
      /\ shots = <<>>
      /\ out = Quiet("init")

NextSession ==
  \/ BeginFrame(FrameMs, CollideNow + SessionFrames * FrameMs)
  \/ Tick(Draw(0, 500, 999, 500))
  \/ Render
  \/ PauseToggle
  \/ OpenLeaderboard
  \/ CloseLeaderboard

SpecSession == InitSession /\ [][NextSession]_vars

\* C37: the level is always in 1..100; a tick that signals onLevelProgress
\* raises it by exactly 1, or leaves it at 100 when it is 100 already, and no
\* other step of a game changes it.
C37_LevelRange ==
  /\ [](app.level \in 1..MAX_LEVEL)
  /\ [][IF out'.kind = "tick" /\ frameQueue' # frameQueue /\ out'.onLevelProgress > 0
         THEN app'.level = (IF app.level = MAX_LEVEL THEN MAX_LEVEL ELSE app.level + 1)
         ELSE out'.kind # "start" => app'.level = app.level]_vars

\* a tick at level 100 signalled onLevelProgress and the level stayed 100
C37_Witness ==
  /\ out.kind = "tick"
  /\ out.onLevelProgress > 0
  /\ out.level = MAX_LEVEL
  /\ app.level = MAX_LEVEL

\* C38: closing the leaderboard right after it was opened over a game that was
\* not running (paused, or no game) leaves it not running.
C38_LeaderboardKeepsPause ==
  [][(out.kind = "openLeaderboard" /\ ~out.propRunning
      /\ out'.kind = "closeLeaderboard") => ~Running(app')]_vars

\* the order of a tick: the collision passes meet the rockets
\* where the rocket update of the same tick left them, the bullet pass before
\* the ship pass
CollisionsAfterMotion ==
  /\ Range(out.bulletPass.before) \subseteq Range(out.rocketPass.updated)
  /\ Range(out.shipPass.before) \subseteq Range(out.bulletPass.before)

\* the particles "Level progress" met, after the particle update
ParticlesUpdated(ps, dt) ==
  SelectSeq([i \in 1..Len(ps) |-> MoveParticle(ps[i], dt)], LAMBDA q : q.age < q.life)

\* C35 as stated: in every tick the collisions are tested after the motion,
\* and the level clock is advanced after the particle update: the particle
\* update met the level timer of the tick before, and "Level progress" met
\* the particles already updated.
C35_LevelClockAfterParticles ==
  out.kind = "tick" =>
    /\ CollisionsAfterMotion
    /\ out.effectsPass.levelTimer = out.timerBefore
    /\ out.levelPass.particles = st.particles

\* C35: in every tick the collisions are tested after the motion, and the
\* level clock is advanced before the particle update: "Level progress" met
\* the particles not yet updated, and the particle update met the level timer
\* already advanced.
C35_LevelClockBeforeParticles ==
  out.kind = "tick" =>
    /\ CollisionsAfterMotion
    /\ out.effectsPass.levelTimer = st.levelTimer
    /\ st.particles = ParticlesUpdated(out.levelPass.particles, out.dt)

\* a tick of dt > 0 whose collision passes met rockets: "Level progress" met
\* the particles of an explosion, and the particle update moved them
C35_Witness ==
  /\ out.kind = "tick"
  /\ out.dt > 0
  /\ out.shipPass.before # <<>>
  /\ out.levelPass.particles # <<>>
  /\ out.levelPass.particles # st.particles
  /\ st.levelTimer > out.timerBefore

\* the rockets destroyed by the detonations of the last tick, counted
BombKills == SumSeq([i \in 1..Len(out.blasts) |-> Len(out.blasts[i].killed)])

\* C36: every onScore delta of a tick is a positive multiple of 10, the deltas
\* of a tick add up to 20 per rocket destroyed by a bomb and 10 per rocket
\* destroyed by a bullet, a tick adds exactly its deltas to the score, and no
\* step other than a start lowers the score.
C36_ScoreNeverDecreases ==
  /\ [](out.kind = "tick" =>
         /\ \A i \in 1..Len(out.onScore) : out.onScore[i] > 0 /\ out.onScore[i] % 10 = 0
         /\ SumSeq(out.onScore) = 20 * BombKills + 10 * Len(out.bulletPass.killed))
  /\ [][/\ out'.kind # "start" => app'.score >= app.score
        /\ (out'.kind = "tick" /\ frameQueue' # frameQueue)
             => app'.score = app.score + SumSeq(out'.onScore)]_vars

\* a tick in which a bomb and a bullet each destroyed a rocket: two deltas,
\* both added to the score
C36_Witness ==
  /\ out.kind = "tick"
  /\ Len(out.onScore) = 2
  /\ BombKills > 0
  /\ out.bulletPass.killed # <<>>
  /\ app.score = out.scoreBefore + SumSeq(out.onScore)

\* C28: the score and the level submitted at a game over are those of the
\* session when the last life was lost: the score the App held when the tick
\* began, or that plus what the tick itself had scored, and the level of the
\* App.
C28_SubmitsCurrentValues ==
  (out.kind = "tick" /\ out.submit.called) =>
    /\ out.submit.score \in {out.scoreBefore, out.scoreBefore + SumSeq(out.onScore)}
    /\ out.onLevelProgress = 0 => out.submit.level = app.level

\* C29: the camera shake is capped: shakeIntensity <= 15 in every state and
\* the offsets shakeX, shakeY a tick applies are within [-15, 15].
C29_ShakeCapped ==
  /\ st.camera.shakeIntensity <= MaxShake * 1000
  /\ Abs(st.camera.shakeX) <= MaxShake * 1000
  /\ Abs(st.camera.shakeY) <= MaxShake * 1000

----------------------------------------------------------------------------
(* SpecShake: triggerScreenShake and updateScreenShake on their own        *)

\* the strengths (mpx) and durations (ms) explode() triggers a shake with:
\* 5, 8 or 12 times a proximity factor above 0.1, for 300 or 500 ms
ShakeStrengths == {600, 4000, 8000, 12000}
ShakeDurations == {300, 500}
\* the dt (ms) of a tick and the Math.random() draws of updateScreenShake
ShakeSteps == {0, 16, 33}
ShakeDraws == {0, 500, 999}

\* explode() calls triggerScreenShake(i, d)
TriggerShake(i, d) ==
  /\ CanvasStep(triggerScreenShake(st, i, d), Quiet("shake"))
  /\ UNCHANGED shots

\* a tick calls updateScreenShake(dt)
UpdateShake(dt, r) ==
  /\ CanvasStep(updateScreenShake(st, dt, r, Rnd(r, 1)), Quiet("decay"))
  /\ UNCHANGED shots

NextShake ==
  \/ \E i \in ShakeStrengths, d \in ShakeDurations : TriggerShake(i, d)
  \/ \E dt \in ShakeSteps, r \in ShakeDraws : UpdateShake(dt, r)

SpecShake == Init /\ [][NextShake]_vars

\* C30: triggerScreenShake(i, d) sets shakeIntensity and shakeDuration to i
\* and d when i is greater than the current shakeIntensity or less than 50 ms
\* of shake remain, and changes nothing otherwise; each updateScreenShake(dt)
\* takes dt off a positive shakeDuration and leaves the intensity alone until
\* the duration is used up; whenever shakeDuration <= 0, shakeX, shakeY and
\* shakeIntensity are 0, and updateScreenShake leaves them so.
C30_ShakeOverride ==
  /\ [](st.camera.shakeDuration <= 0 =>
          /\ st.camera.shakeX = 0 /\ st.camera.shakeY = 0
          /\ st.camera.shakeIntensity = 0)
  /\ [][out'.kind = "shake" =>
          \E i \in ShakeStrengths, d \in ShakeDurations :
            st'.camera =
              IF i > st.camera.shakeIntensity \/ st.camera.shakeDuration < 50
                THEN [st.camera EXCEPT !.shakeIntensity = i, !.shakeDuration = d]
                ELSE st.camera]_vars
  /\ [][out'.kind = "decay" =>
          IF st.camera.shakeDuration > 0
            THEN /\ \E dt \in ShakeSteps :
                      st'.camera.shakeDuration = st.camera.shakeDuration - dt
                 /\ st'.camera.shakeIntensity =
                      (IF st'.camera.shakeDuration <= 0 THEN 0
                       ELSE st.camera.shakeIntensity)
            ELSE st'.camera = st.camera]_vars

\* a trigger was refused: the shake is at full strength with between 50 and
\* 300 ms left, which no trigger sets
C30_Witness ==
  /\ out.kind = "shake"
  /\ st.camera.shakeIntensity = 12000
  /\ st.camera.shakeDuration > 50
  /\ st.camera.shakeDuration < 300

----------------------------------------------------------------------------
(* shoot(): the cooldown                                                   *)

=============================================================================
